---- MODULE Spec2Model ----
(***************************************************************************)
(* DayRatingApp: the entry store (AsyncStorage behind utils/storage and    *)
(* utils/auth), the monthly analysis engine (utils/aiAnalysis), the daily  *)
(* reminder (utils/notifications), the auth gate (RootLayout, AuthScreen), *)
(* the diary modal (CalendarScreen, RatingModal) and calculateWordCount.   *)
(*                                                                         *)
(* Strings are sequences of UTF-16 code units, so that startsWith,        *)
(* replace, padStart and the default Array.prototype.sort comparison are   *)
(* computed on characters.  JavaScript numbers are IEEE-754 doubles: the   *)
(* quotients and differences the trend classifier and the report compute   *)
(* are evaluated in 53-bit arithmetic on a fixed-point grid of 2^-54       *)
(* (four limbs of 18 bits), with round-to-nearest-even.                    *)
(***************************************************************************)
EXTENDS Integers, Sequences, FiniteSets, TLC

VARIABLES
    storage,        \* AsyncStorage: a function from the keys present to their string values
    saved,          \* history: date string -> entry of the latest completed saveDayEntry
    pc,             \* position of the analyzeLastMonth call in flight
    keys,           \* the call's local `keys` (result of AsyncStorage.getAllKeys)
    allEntries,     \* the value the call's getAllDayEntries returned
    recentEntries,  \* the value the call's getEntriesFromLastNDays returned
    clock,          \* the device clock and zone read by the call's `new Date()`
    report,         \* the MonthlyAnalysis the call returned
    seen,           \* history: the store contents at every instant of the call in flight
    writes,         \* number of store writes that completed during the call in flight
    failed,         \* whether a store read of the call in flight did not complete
    tEntries,       \* trend classifier: the windowed entries handed to analyzeRatingTrend
    tResult,        \* trend classifier: the value analyzeRatingTrend returned
    gInput,         \* generator: ratedDays, totalRating, trend and themes of one analysis
    gOut,           \* generator: the insights and recommendations of that analysis
    xEntries,       \* theme extractor: the windowed entries handed to extractThemes
    xRuns,          \* theme extractor: the values its runs on xEntries returned, in order
    wallClock,      \* reminder: the calendar day, and whether 21:00 of it has passed
    permission,     \* reminder: whether notification permission is granted on the device
    scheduled,      \* reminder: the number of DAILY 21:00 notifications scheduled
    notified,       \* history: the days the reminder fired on, and whether each was rated then
    setup,          \* the setupSmartNotifications call of each caller: position and locals
    handler,        \* the handleSaveEntry call: position, the date it saved and when
    modal,          \* CalendarScreen: modalVisible and selectedDate
    auto,           \* RatingModal: the auto-save timer and the autoSaveDiary call
    gate,           \* RootLayout: isAuthenticated, authRequired, isCheckingAuth
    listener,       \* RootLayout: the state values the subscribed AppState listener closes over
    appState,       \* AppState.currentState
    attempt,        \* AuthScreen: the passcode or biometric check in flight
    screen,         \* AuthScreen: the passcode state and the pending auto-submit timers
    history,        \* history: keystrokes, onAuthenticated calls, successful checks, last Save
    calendarScreen, \* CalendarScreen: modalVisible, selectedDate, selectedEntry, calls in flight
    ratingModal,    \* RatingModal: rating, description, the effect's deps, timer, calls in flight
    wInput,         \* word counter: the text handed to calculateWordCount
    wOut            \* word counter: the value calculateWordCount returned

vars == <<storage, saved, pc, keys, allEntries, recentEntries, clock, report,
          seen, writes, failed, tEntries, tResult, gInput, gOut, xEntries, xRuns,
          wallClock, permission, scheduled, notified, setup, handler, modal, auto,
          gate, listener, appState, attempt, screen, history,
          calendarScreen, ratingModal, wInput, wOut>>

-----------------------------------------------------------------------------
(* Bounds of the model *)

\* number of consecutive calendar days a trend-classifier window is drawn from
MaxTrendDays == 9

\* number of those days whose windows are drawn with every rating 1..5
MaxFullDays == 5

\* number of theme labels in a theme list handed to the generator
MaxInputThemes == 3

\* number of calendar days a theme-extractor window is drawn from
MaxThemeDays == 3

\* number of runs of the theme extractor on one window
MaxThemeRuns == 2

\* number of calendar days the clock of the reminder runs through
MaxNotifyDays == 2

\* number of most recent days (today and the days before) stores are drawn over
MaxRecentDays == 3

\* store writes that may complete while one analyzeLastMonth call is in flight
MaxWrites == 2

\* number of auto-submit timers of the auth screen pending at one time
MaxSubmitTimers == 2

\* number of calendar days the rating modal is opened for
MaxModalDays == 2

\* number of handleDatePress calls in flight at one time
MaxDatePresses == 2

\* number of handleSaveEntry calls, and of autoSaveDiary calls, in flight at one time
MaxSaveCalls == 1

\* number of saveDayEntry calls the rating modal makes in one run
MaxModalSaves == 2

\* number of characters of a text handed to calculateWordCount
MaxWordChars == 5

-----------------------------------------------------------------------------
(* Strings *)

\* the characters string literals of the model are written with, by code unit:
\* lower-case letters from 97, upper-case letters from 65, digits from 48
LowerCase == "abcdefghijklmnopqrstuvwxyz"

UpperCase == "ABCDEFGHIJKLMNOPQRSTUVWXYZ"

Digits == "0123456789"

IndexIn(alphabet, ch) ==
    IF \E i \in 1..Len(alphabet) : SubSeq(alphabet, i, i) = ch
    THEN CHOOSE i \in 1..Len(alphabet) : SubSeq(alphabet, i, i) = ch
    ELSE 0

CodeUnit(ch) ==
    IF IndexIn(LowerCase, ch) > 0 THEN 96 + IndexIn(LowerCase, ch)
    ELSE IF IndexIn(UpperCase, ch) > 0 THEN 64 + IndexIn(UpperCase, ch)
    ELSE IF IndexIn(Digits, ch) > 0 THEN 47 + IndexIn(Digits, ch)
    ELSE IF ch = " " THEN 32
    ELSE IF ch = "," THEN 44
    ELSE IF ch = "-" THEN 45
    ELSE IF ch = ":" THEN 58
    ELSE IF ch = "@" THEN 64
    ELSE IF ch = "{" THEN 123
    ELSE 125  \* "}"

\* the code units of a string literal
Str(lit) == [i \in 1..Len(lit) |-> CodeUnit(SubSeq(lit, i, i))]

Quote == <<34>>

Space == Str(" ")

Digit(n) == 48 + n

IsDigit(c) == c >= 48 /\ c <= 57

Hyphen == <<45>>

RECURSIVE NatToString(_)
\* String(n) for a natural number
NatToString(n) ==
    IF n < 10 THEN <<Digit(n)>>
    ELSE NatToString(n \div 10) \o <<Digit(n % 10)>>

RECURSIVE padStart(_, _, _)
\* String.prototype.padStart with a one-character pad string
padStart(s, targetLength, padChar) ==
    IF Len(s) >= targetLength THEN s
    ELSE padStart(<<padChar>> \o s, targetLength, padChar)

\* String.prototype.startsWith
startsWith(s, prefix) ==
    /\ Len(s) >= Len(prefix)
    /\ SubSeq(s, 1, Len(prefix)) = prefix

\* key.replace(STORAGE_PREFIX, '') applied to a string that starts with the prefix
StripPrefix(s, prefix) == SubSeq(s, Len(prefix) + 1, Len(s))

\* s < t in the code-unit order Array.prototype.sort uses without a comparator:
\* at the first position they differ in s has the smaller code unit, or s is a
\* proper prefix of t
StrLess(s, t) ==
    LET RECURSIVE Less(_)
        Less(i) ==
            IF i > Len(t) THEN FALSE
            ELSE IF i > Len(s) THEN TRUE
            ELSE IF s[i] # t[i] THEN s[i] < t[i]
            ELSE Less(i + 1)
    IN  Less(1)

RECURSIVE SortStrings(_)
\* Object.keys(x).sort(): the strings of S in ascending code-unit order
SortStrings(S) ==
    IF S = {} THEN <<>>
    ELSE LET x    == CHOOSE y \in S : TRUE
             rest == SortStrings(S \ {x})
             k    == Cardinality({i \in 1..Len(rest) : StrLess(rest[i], x)})
         IN  SubSeq(rest, 1, k) \o <<x>> \o SubSeq(rest, k + 1, Len(rest))

-----------------------------------------------------------------------------
(* Calendar: Date values are counted in hours since the epoch *)

\* days since 1970-01-01 of the proleptic Gregorian date y-m-d (m is 1..12)
DaysFromCivil(y, m, d) ==
    LET yy  == IF m <= 2 THEN y - 1 ELSE y
        era == yy \div 400
        yoe == yy - era * 400
        mp  == IF m > 2 THEN m - 3 ELSE m + 9
        doy == (153 * mp + 2) \div 5 + d - 1
        doe == yoe * 365 + yoe \div 4 - yoe \div 100 + doy
    IN  era * 146097 + doe - 719468

\* the calendar date of day number z, as getFullYear/getMonth/getDate give it
CivilFromDays(z) ==
    LET zz  == z + 719468
        era == zz \div 146097
        doe == zz - era * 146097
        yoe == (doe - doe \div 1460 + doe \div 36524 - doe \div 146096) \div 365
        doy == doe - (365 * yoe + yoe \div 4 - yoe \div 100)
        mp  == (5 * doy + 2) \div 153
        d   == doy - (153 * mp + 2) \div 5 + 1
        m   == IF mp < 10 THEN mp + 3 ELSE mp - 9
    IN  [year  |-> IF m <= 2 THEN yoe + era * 400 + 1 ELSE yoe + era * 400,
         month |-> m - 1,
         date  |-> d]

\* formatDate without zero padding
formatDateUnpadded(date) ==
    NatToString(date.year) \o Hyphen \o NatToString(date.month + 1)
        \o Hyphen \o NatToString(date.date)

\* formatDate: a Date (its local calendar fields) as YYYY-MM-DD
formatDate(date) ==
    LET year  == NatToString(date.year)
        month == padStart(NatToString(date.month + 1), 2, Digit(0))
        day   == padStart(NatToString(date.date), 2, Digit(0))
    IN  year \o Hyphen \o month \o Hyphen \o day

\* the date string of day number z
DateStr(z) == formatDate(CivilFromDays(z))

\* a Date: its time value in hours since the epoch, or an Invalid Date (NaN)
ValidDate(t) == [valid |-> TRUE, time |-> t]

InvalidDate == [valid |-> FALSE, time |-> 0]

DigitsValue(s, from, to) ==
    LET RECURSIVE Val(_, _)
        Val(i, acc) == IF i > to THEN acc ELSE Val(i + 1, acc * 10 + (s[i] - 48))
    IN  Val(from, 0)

\* the shape the date-only ISO form has: YYYY-MM-DD
IsISODate(s) ==
    /\ Len(s) = 10
    /\ \A i \in {1, 2, 3, 4, 6, 7, 9, 10} : IsDigit(s[i])
    /\ s[5] = 45 /\ s[8] = 45
    /\ DigitsValue(s, 6, 7) \in 1..12
    /\ DigitsValue(s, 9, 10) \in 1..31

\* new Date(dateStr): a date-only ISO string is midnight UTC of that date,
\* any other string of the store is an Invalid Date (time value NaN)
ParseDate(s) ==
    IF IsISODate(s)
    THEN ValidDate(24 * DaysFromCivil(DigitsValue(s, 1, 4), DigitsValue(s, 6, 7),
                                      DigitsValue(s, 9, 10)))
    ELSE InvalidDate

\* a >= b on Date time values: every comparison with NaN is false
DateGeq(a, b) == a.valid /\ b.valid /\ a.time >= b.time

-----------------------------------------------------------------------------
(* IEEE-754 double arithmetic.                                             *)
(* A non-negative value is <<i, a, b, c>> = i + a/B + b/B^2 + c/B^3 with   *)
(* B = 2^18: an exact multiple of 2^-54.  Every double in [2^-2, 2^6) is  *)
(* on this grid; a double keeps 53 significant bits, so its unit in the    *)
(* last place is 2^(e-52) for a value in [2^e, 2^(e+1)).                  *)

LimbBase == 2^18

\* s / n before rounding: the quotient cut to the grid, and what is left over
FDiv(s, n) ==
    LET i  == s \div n
        r0 == s % n
        a  == (r0 * LimbBase) \div n
        r1 == (r0 * LimbBase) % n
        b  == (r1 * LimbBase) \div n
        r2 == (r1 * LimbBase) % n
        c  == (r2 * LimbBase) \div n
        r3 == (r2 * LimbBase) % n
    IN  [v |-> <<i, a, b, c>>, rem |-> r3, den |-> n]

\* the unit in the last place of the doubles around v, in grid units
Ulp(v) ==
    IF v[1] >= 32 THEN 128
    ELSE IF v[1] >= 16 THEN 64
    ELSE IF v[1] >= 8 THEN 32
    ELSE IF v[1] >= 4 THEN 16
    ELSE IF v[1] >= 2 THEN 8
    ELSE IF v[1] >= 1 THEN 4
    ELSE IF v[2] >= 2^17 THEN 2
    ELSE 1

\* v + k grid units (k < B), carries propagated
FAddUnits(v, k) ==
    LET c  == v[4] + k
        b  == v[3] + c \div LimbBase
        a  == v[2] + b \div LimbBase
    IN  <<v[1] + a \div LimbBase, a % LimbBase, b % LimbBase, c % LimbBase>>

\* round-to-nearest, ties to even, of the exact value q.v + (q.rem / q.den) grid units
FRound(q) ==
    LET u    == Ulp(q.v)
        low  == q.v[4] % u
        down == <<q.v[1], q.v[2], q.v[3], q.v[4] - low>>
        \* twice the discarded part against one ulp, both scaled by q.den
        twice == 2 * (low * q.den + q.rem)
        one   == u * q.den
        odd   == ((q.v[4] - low) \div u) % 2 = 1
    IN  IF twice > one \/ (twice = one /\ odd) THEN FAddUnits(down, u) ELSE down

\* the double nearest to the rational s / n: what the JS expression s / n evaluates to
Double(s, n) == FRound(FDiv(s, n))

\* -1, 0, 1 as x is below, equal to, above y
FCmp(x, y) ==
    LET RECURSIVE Cmp(_)
        Cmp(k) == IF k > 4 THEN 0
                  ELSE IF x[k] < y[k] THEN -1
                  ELSE IF x[k] > y[k] THEN 1
                  ELSE Cmp(k + 1)
    IN  Cmp(1)

\* x - y for x >= y, exact on the grid
FSubExact(x, y) ==
    LET c  == x[4] - y[4]
        bc == IF c < 0 THEN 1 ELSE 0
        b  == x[3] - y[3] - bc
        bb == IF b < 0 THEN 1 ELSE 0
        a  == x[2] - y[2] - bb
        ba == IF a < 0 THEN 1 ELSE 0
    IN  <<x[1] - y[1] - ba, a + ba * LimbBase, b + bb * LimbBase, c + bc * LimbBase>>

\* the double x - y: its sign and its magnitude rounded to 53 bits
FSub(x, y) ==
    IF FCmp(x, y) >= 0
    THEN [neg |-> FALSE, mag |-> FRound([v |-> FSubExact(x, y), rem |-> 0, den |-> 1])]
    ELSE [neg |-> TRUE,  mag |-> FRound([v |-> FSubExact(y, x), rem |-> 0, den |-> 1])]

\* the double x * 10
FMul10(x) ==
    LET c == x[4] * 10
        b == x[3] * 10 + c \div LimbBase
        a == x[2] * 10 + b \div LimbBase
        i == x[1] * 10 + a \div LimbBase
    IN  FRound([v |-> <<i, a % LimbBase, b % LimbBase, c % LimbBase>>, rem |-> 0, den |-> 1])

\* Math.round(x) for x >= 0: floor(x + 0.5)
MathRound(x) == IF x[2] >= 2^17 THEN x[1] + 1 ELSE x[1]

-----------------------------------------------------------------------------
(* JSON text of the values the store holds *)

\* an entry, as the object JSON.parse gives back
DayEntry(rating, description) ==
    [type |-> "object", rating |-> rating, description |-> description, prim |-> 0]

\* a JSON number and a JSON boolean, as JSON.parse gives them back
JSNumber(n) == [type |-> "number", rating |-> 0, description |-> <<>>, prim |-> n]

JSBoolean(b) ==
    [type |-> "boolean", rating |-> 0, description |-> <<>>, prim |-> IF b THEN 1 ELSE 0]

ObjHead == Str("{") \o Quote \o Str("rating") \o Quote \o Str(":")

DescHead == Str(",") \o Quote \o Str("description") \o Quote \o Str(":") \o Quote

ObjTail == Quote \o Str("}")

\* JSON.stringify(entry) for a description that needs no escaping
JSONstringify(entry) ==
    ObjHead \o NatToString(entry.rating) \o DescHead \o entry.description \o ObjTail

TextTrue == Str("true")

TextFalse == Str("false")

\* JSON.stringify(enabled)
BoolText(b) == IF b THEN TextTrue ELSE TextFalse

\* number of digits s has from position i on
DigitRun(s, i) ==
    LET RECURSIVE Run(_)
        Run(k) == IF i + k <= Len(s) /\ IsDigit(s[i + k]) THEN Run(k + 1) ELSE k
    IN  Run(0)

SyntaxError == [ok |-> FALSE, value |-> JSNumber(0)]

\* a JSON number literal of digits only: no leading zero
IsJSONInteger(s) ==
    /\ Len(s) >= 1
    /\ DigitRun(s, 1) = Len(s)
    /\ (Len(s) = 1 \/ s[1] # Digit(0))

\* JSON.parse on the texts the store can hold: the text of an entry object, an
\* integer literal, true or false; anything else throws SyntaxError
JSONparse(s) ==
    LET k    == DigitRun(s, Len(ObjHead) + 1)
        rest == SubSeq(s, Len(ObjHead) + k + 1, Len(s))
        text == SubSeq(rest, Len(DescHead) + 1, Len(rest) - Len(ObjTail))
    IN  IF /\ startsWith(s, ObjHead)
           /\ IsJSONInteger(SubSeq(s, Len(ObjHead) + 1, Len(ObjHead) + k))
           /\ startsWith(rest, DescHead)
           /\ Len(rest) >= Len(DescHead) + Len(ObjTail)
           /\ SubSeq(rest, Len(rest) - Len(ObjTail) + 1, Len(rest)) = ObjTail
           /\ \A i \in 1..Len(text) : text[i] # Quote[1]
        THEN [ok |-> TRUE,
              value |-> DayEntry(DigitsValue(s, Len(ObjHead) + 1, Len(ObjHead) + k), text)]
        ELSE IF IsJSONInteger(s)
        THEN [ok |-> TRUE, value |-> JSNumber(DigitsValue(s, 1, Len(s)))]
        ELSE IF s = TextTrue \/ s = TextFalse
        THEN [ok |-> TRUE, value |-> JSBoolean(s = TextTrue)]
        ELSE SyntaxError

-----------------------------------------------------------------------------
(* utils/storage and utils/auth: the keys *)

STORAGE_PREFIX == Str("@DailyReflection:")

PASSCODE_KEY == Str("@DailyReflection:passcode")

AUTH_ENABLED_KEY == Str("@DailyReflection:authEnabled")

\* the key saveDayEntry and getDayEntry use for a date
\* one key for every date
EntryKeyShared(date) == STORAGE_PREFIX

EntryKey(date) == STORAGE_PREFIX \o date

\* an object without properties
EmptyObject == << >>

\* AsyncStorage.multiGet: the value of each key asked for, null for a key not there
null == <<0>>

multiGet(store, ks) == [k \in ks |-> IF k \in DOMAIN store THEN store[k] ELSE null]

\* `if (value)`: null and the empty string are falsy
Truthy(value) == value # null /\ value # <<>>

\* getAllDayEntries from the keys read on: filter by prefix, multiGet, parse every
\* value that is there; a JSON.parse that throws ends in the catch, which returns {}
ParseAllEntries(ks, store) ==
    LET dayKeys == {k \in ks : startsWith(k, STORAGE_PREFIX)}
        entries == multiGet(store, dayKeys)
        present == {k \in dayKeys : Truthy(entries[k])}
    IN  IF \E k \in present : ~JSONparse(entries[k]).ok
        THEN EmptyObject
        ELSE [date \in {StripPrefix(k, STORAGE_PREFIX) : k \in present} |->
                 JSONparse(entries[EntryKey(date)]).value]

\* the catch block of getAllDayEntries: a failed read gives {}
GetAllDayEntriesCatch == EmptyObject

\* getDayEntry: the parsed entry of a date, null if the key is not there
NoEntry == JSNumber(0)

getDayEntry(store, date) ==
    IF EntryKey(date) \in DOMAIN store /\ Truthy(store[EntryKey(date)])
    THEN JSONparse(store[EntryKey(date)]).value
    ELSE NoEntry

-----------------------------------------------------------------------------
(* utils/aiAnalysis: the window *)

\* the local calendar day the device is at: 2024-10-15
Today == DaysFromCivil(2024, 10, 15)

\* new Date(): the time value of local day `day`, local hour `hour`, in a zone
\* `zone` hours east of UTC
TimeValue(day, hour, zone) == ValidDate(24 * day + hour - zone)

\* cutoffDate.setDate(cutoffDate.getDate() - days): the same local time of day,
\* `days` calendar days earlier (zones without a clock change in between)
CutoffDate(now, days) == ValidDate(now.time - 24 * days)

\* the inclusion test with the cutoff one day early
InWindowOffByOne(dateStr, now, days) ==
    DateGeq(ParseDate(dateStr), CutoffDate(now, days + 1))

\* the inclusion test of the window: entryDate >= cutoffDate
InWindow(dateStr, now, days) == DateGeq(ParseDate(dateStr), CutoffDate(now, days))

\* getEntriesFromLastNDays after its read: the entries whose date is at or after the cutoff
SelectWindow(all, now, days) ==
    [d \in {x \in DOMAIN all : InWindow(x, now, days)} |-> all[d]]

-----------------------------------------------------------------------------
(* utils/aiAnalysis: analyzeRatingTrend *)

RECURSIVE SumRatings(_, _)
\* dates.reduce((sum, date) => sum + entries[date].rating, 0)
SumRatings(dates, entries) ==
    IF dates = <<>> THEN 0
    ELSE entries[Head(dates)].rating + SumRatings(Tail(dates), entries)

\* Object.keys(entries).sort()
TrendDates(entries) == SortStrings(DOMAIN entries)

\* Math.floor(dates.length / 2)
MidPoint(n) == n \div 2

\* dates.slice(0, midPoint) and dates.slice(midPoint)
FirstHalf(dates) == SubSeq(dates, 1, MidPoint(Len(dates)))

SecondHalf(dates) == SubSeq(dates, MidPoint(Len(dates)) + 1, Len(dates))

\* the minimum number of entries a trend is computed from
MinTrendEntriesLow == 7 - 2

MinTrendEntries == 7

\* the literal 0.3
TrendThreshold == Double(3, 10)

\* secondAvg - firstAvg, in doubles
TrendDifference(firstHalf, secondHalf, entries) ==
    LET firstAvg   == Double(SumRatings(firstHalf, entries), Len(firstHalf))
        secondAvg  == Double(SumRatings(secondHalf, entries), Len(secondHalf))
    IN  FSub(secondAvg, firstAvg)

\* analyzeRatingTrend: the value returned, with the locals it was computed from
\* (no slices when it returns before the split)
TrendRun(entries) ==
    LET dates == TrendDates(entries)
        firstHalf == FirstHalf(dates)
        secondHalf == SecondHalf(dates)
        difference == TrendDifference(firstHalf, secondHalf, entries)
    IN  IF Len(dates) < MinTrendEntries
        THEN [value |-> "stable", dates |-> dates, firstHalf |-> <<>>, secondHalf |-> <<>>]
        ELSE [value |-> IF ~difference.neg /\ FCmp(difference.mag, TrendThreshold) = 1
                        THEN "improving"
                        ELSE IF difference.neg /\ FCmp(difference.mag, TrendThreshold) = 1
                        THEN "declining"
                        ELSE "stable",
              dates |-> dates, firstHalf |-> firstHalf, secondHalf |-> secondHalf]

analyzeRatingTrend(entries) == TrendRun(entries).value

-----------------------------------------------------------------------------
(* utils/aiAnalysis: extractThemes *)

\* String.prototype.toLowerCase on the characters of the model
toLowerCase(s) == [i \in 1..Len(s) |-> IF s[i] >= 65 /\ s[i] <= 90 THEN s[i] + 32 ELSE s[i]]

RECURSIVE Join(_, _)
\* Array.prototype.join
Join(strs, sep) ==
    IF strs = <<>> THEN <<>>
    ELSE IF Len(strs) = 1 THEN strs[1]
    ELSE strs[1] \o sep \o Join(Tail(strs), sep)

\* \w of a regular expression without the u flag
IsWordChar(c) ==
    \/ c >= 48 /\ c <= 57
    \/ c >= 65 /\ c <= 90
    \/ c >= 97 /\ c <= 122
    \/ c = 95

\* the positions of text a word starts at: where \b holds before a word character
WordStarts(text) ==
    {p \in 1..Len(text) : IsWordChar(text[p]) /\ (p = 1 \/ ~IsWordChar(text[p - 1]))}

\* the number of matches of /\bword\w*\b/gi in text: a match begins where a word
\* starts, takes the whole word, and there is one for each word that begins with
\* `word` (text is lower case already, and so is every keyword)
CountMatches(word, text, starts) ==
    Cardinality({p \in starts :
        /\ p + Len(word) - 1 <= Len(text)
        /\ \A i \in 1..Len(word) : text[p + i - 1] = word[i]})

\* the keyword table, in the order its properties are declared
keywords ==
    << [theme |-> Str("work"),
        words |-> <<Str("work"), Str("job"), Str("project"), Str("meeting"),
                    Str("deadline"), Str("colleague")>>],
       [theme |-> Str("social"),
        words |-> <<Str("friend"), Str("family"), Str("party"), Str("dinner"),
                    Str("hangout"), Str("visit")>>],
       [theme |-> Str("health"),
        words |-> <<Str("exercise"), Str("gym"), Str("run"), Str("workout"),
                    Str("health"), Str("sleep")>>],
       [theme |-> Str("learning"),
        words |-> <<Str("learn"), Str("study"), Str("read"), Str("course"),
                    Str("book"), Str("skill")>>],
       [theme |-> Str("stress"),
        words |-> <<Str("stress"), Str("anxiety"), Str("worry"), Str("pressure"),
                    Str("overwhelm")>>],
       [theme |-> Str("achievement"),
        words |-> <<Str("accomplish"), Str("achieve"), Str("success"), Str("complete"),
                    Str("finish"), Str("win")>>] >>

\* Object.values(entries).map(e => e.description.toLowerCase()).join(' ')
AllText(entries) ==
    LET dates == SortStrings(DOMAIN entries)
    IN  Join([i \in 1..Len(dates) |-> toLowerCase(entries[dates[i]].description)], Space)

\* themeScores, by position in the keyword table
ThemeScores(entries) ==
    LET allText == AllText(entries)
        starts  == WordStarts(allText)
        RECURSIVE SumWords(_, _)
        SumWords(words, i) ==
            IF i > Len(words) THEN 0
            ELSE CountMatches(words[i], allText, starts) + SumWords(words, i + 1)
    IN  [t \in 1..Len(keywords) |-> SumWords(keywords[t].words, 1)]

\* the sort putting, among equal scores, the theme declared later first
SortedThemesLastFirst(scores) ==
    LET RECURSIVE Pick(_)
        Pick(left) ==
            IF left = {} THEN <<>>
            ELSE LET best == CHOOSE t \in left : \A u \in left \ {t} :
                                 scores[t] > scores[u] \/ (scores[t] = scores[u] /\ t > u)
                 IN  <<best>> \o Pick(left \ {best})
    IN  Pick(DOMAIN scores)

\* .sort(([, a], [, b]) => b - a): descending by score; the sort is stable, so
\* equal scores keep the order of the table
SortedThemes(scores) ==
    LET RECURSIVE Pick(_)
        Pick(left) ==
            IF left = {} THEN <<>>
            ELSE LET best == CHOOSE t \in left : \A u \in left \ {t} :
                                 scores[t] > scores[u] \/ (scores[t] = scores[u] /\ t < u)
                 IN  <<best>> \o Pick(left \ {best})
    IN  Pick(DOMAIN scores)

\* theme.charAt(0).toUpperCase() + theme.slice(1), for a lower-case theme
Capitalize(theme) == <<theme[1] - 32>> \o Tail(theme)

\* slice(0, 4)
MaxThemesHigh == 3 + 1

\* the number of themes kept
MaxThemes == 3

extractThemes(entries) ==
    LET scores == ThemeScores(entries)
        sorted == SortedThemes(scores)
        top    == SubSeq(sorted, 1, MaxThemes)
        kept   == SelectSeq(top, LAMBDA t : scores[t] > 0)
    IN  [i \in 1..Len(kept) |-> Capitalize(keywords[kept[i]].theme)]

\* themes.includes(label)
Includes(themes, label) == \E i \in 1..Len(themes) : themes[i] = label

-----------------------------------------------------------------------------
(* utils/aiAnalysis: generateInsights and generateRecommendations *)

\* an insight: a fixed message, the theme message with the themes it lists
Insight(text) == [text |-> text, themes |-> <<>>]

FocusInsight(themes) == [text |-> "Main focus areas: ${themes.join(', ')}.", themes |-> themes]

\* the mood tier at 4.5 instead of 4.0
FourHigh == Double(9, 2)

\* the threshold of the low-average rule at 2.0 instead of 3.0
ThreeLow == Double(2, 1)

\* the doubles 4.0 and 3.0
Four == Double(4, 1)

Three == Double(3, 1)

generateInsights(entries, avgRating, trend, themes) ==
    LET ratedDays == Cardinality(DOMAIN entries)
        consistency ==
            IF ratedDays >= 25
            THEN "Excellent consistency! You've been tracking your mood regularly."
            ELSE IF ratedDays >= 15
            THEN "Good tracking habit! Try to maintain this consistency."
            ELSE "Consider tracking more regularly to get better insights."
        mood ==
            IF FCmp(avgRating, Four) >= 0
            THEN "Your overall mood has been very positive this month!"
            ELSE IF FCmp(avgRating, Three) >= 0
            THEN "Your mood has been generally stable and balanced."
            ELSE "It seems you've had some challenging days."
        trendPart ==
            IF trend = "improving"
            THEN <<Insight("Great news! Your mood trend is improving over time.")>>
            ELSE IF trend = "declining"
            THEN <<Insight("Your mood has been declining recently.")>>
            ELSE <<>>
        themePart == IF Len(themes) > 0 THEN <<FocusInsight(themes)>> ELSE <<>>
    IN  <<Insight(consistency), Insight(mood)>> \o trendPart \o themePart

\* slice(0, 5)
MaxRecommendationsHigh == 4 + 1

\* the number of recommendations kept
MaxRecommendations == 4

\* the labels the rules look for
LabelStress == Str("Stress")

\* the Work rule looking for the label of the Social rule
LabelWorkSwapped == Str("Social")

LabelWork == Str("Work")

LabelSocial == Str("Social")

LabelHealth == Str("Health")

generateRecommendations(avgRating, trend, themes) ==
    LET low ==
            IF FCmp(avgRating, Three) < 0
            THEN <<"Consider talking to someone you trust about how you're feeling.",
                   "Try incorporating small self-care activities into your daily routine.">>
            ELSE <<>>
        declining ==
            IF trend = "declining"
            THEN <<"Identify patterns: What days tend to be harder? What helps on better days?",
                   "Consider professional support if you're consistently struggling.">>
            ELSE <<>>
        stress ==
            IF Includes(themes, LabelStress)
            THEN <<"Practice stress management techniques like deep breathing or meditation.",
                   "Ensure you're getting enough rest and taking regular breaks.">>
            ELSE <<>>
        work ==
            IF Includes(themes, LabelWork)
            THEN <<"Maintain work-life balance. Set boundaries for work hours.">>
            ELSE <<>>
        social ==
            IF Includes(themes, LabelSocial)
            THEN <<"Continue nurturing your social connections - they're important for wellbeing.">>
            ELSE <<>>
        health ==
            IF Includes(themes, LabelHealth)
            THEN <<"Keep up the healthy habits! Physical health supports mental wellbeing.">>
            ELSE <<>>
        specific == low \o declining \o stress \o work \o social \o health
        recommendations ==
            IF Len(specific) = 0
            THEN <<"Continue reflecting daily to track your emotional patterns.",
                   "Celebrate your wins, no matter how small.",
                   "Be kind to yourself on difficult days.">>
            ELSE specific
    IN  SubSeq(recommendations, 1,
               IF Len(recommendations) < MaxRecommendations
               THEN Len(recommendations) ELSE MaxRecommendations)

-----------------------------------------------------------------------------
(* utils/aiAnalysis: analyzeLastMonth *)

Zero == Double(0, 1)

\* the report of the `ratedDays === 0` path
NoDataReport ==
    [period |-> "Last 30 Days",
     totalDays |-> 30,
     ratedDays |-> 0,
     averageRating |-> Zero,
     ratingDistribution |->
         [excellent |-> 0, good |-> 0, neutral |-> 0, bad |-> 0, terrible |-> 0],
     emotionalTrend |-> "stable",
     topThemes |-> <<>>,
     insights |-> <<Insight("No data available yet. Start tracking your daily reflections!")>>,
     recommendations |-> <<"Begin by rating your day and writing a brief diary entry.">>]

\* the switch with the break after `case 5` missing: a 5 falls through into `good`
DistributionFallThrough(entries) ==
    LET Count(S) == Cardinality({d \in DOMAIN entries : entries[d].rating \in S})
    IN  [excellent |-> Count({5}), good |-> Count({4, 5}), neutral |-> Count({3}),
         bad |-> Count({2}), terrible |-> Count({1})]

\* the switch over entry.rating
Distribution(entries) ==
    LET Count(r) == Cardinality({d \in DOMAIN entries : entries[d].rating = r})
    IN  [excellent |-> Count(5), good |-> Count(4), neutral |-> Count(3),
         bad |-> Count(2), terrible |-> Count(1)]

\* totalRating: the sum of entry.rating over Object.values(entries)
TotalRating(entries) ==
    LET RECURSIVE Sum(_)
        Sum(S) == IF S = {} THEN 0
                  ELSE LET d == CHOOSE x \in S : TRUE
                       IN  entries[d].rating + Sum(S \ {d})
    IN  Sum(DOMAIN entries)

\* Math.floor(averageRating * 10) / 10
TruncatedAverage(averageRating) == Double(FMul10(averageRating)[1], 10)

\* Math.round(averageRating * 10) / 10
RoundedAverage(averageRating) == Double(MathRound(FMul10(averageRating)), 10)

\* analyzeLastMonth after its read
Report(entries) ==
    LET ratedDays == Cardinality(DOMAIN entries)
        averageRating == Double(TotalRating(entries), ratedDays)
        trend == analyzeRatingTrend(entries)
        themes == extractThemes(entries)
    IN  IF ratedDays = 0 THEN NoDataReport
        ELSE [period |-> "Last 30 Days",
              totalDays |-> 30,
              ratedDays |-> ratedDays,
              averageRating |-> RoundedAverage(averageRating),
              ratingDistribution |-> Distribution(entries),
              emotionalTrend |-> trend,
              topThemes |-> themes,
              insights |-> generateInsights(entries, averageRating, trend, themes),
              recommendations |-> generateRecommendations(averageRating, trend, themes)]

\* the window analyzeLastMonth asks for
WindowDays == 30

-----------------------------------------------------------------------------
(* The inputs *)

\* the hours of the day and the zones (hours east of UTC) the clock is read in
ClockHours == {0, 12}

Zones == {0, 7}

\* the entries the user saves: a rating and a note
SampleEntries ==
    { DayEntry(1, Str("Stress and anxiety at work")),
      DayEntry(2, Str("deadline pressure")),
      DayEntry(3, <<>>),
      DayEntry(4, Str("Dinner with friends")),
      DayEntry(5, Str("gym then running")) }

\* the entries saved while an analysis may run
StoreEntries == {DayEntry(2, Str("deadline pressure")), DayEntry(4, Str("Dinner with friends"))}

\* the passcodes set
Passcodes == {Str("1234"), Str("0123")}

NoReport == [period |-> "none"]

NoClock == [hour |-> 0 - 1, zone |-> 0]

NoTrendResult == [value |-> "none", dates |-> <<>>, firstHalf |-> <<>>, secondHalf |-> <<>>]

NoInput == [days |-> 0 - 1]

NoOutput == [insights |-> <<>>, recommendations |-> <<>>]

\* the ratings an entry can have (rating: number; // 1-5)
Ratings == 1..5

\* the days stores are drawn over: 31 and 30 days before today, which hold an old
\* entry or none, and the most recent days, which hold any sample entry or none
OldDays == {Today - 31, Today - 30}

RecentDays == {Today - i : i \in 0..(MaxRecentDays - 1)}

OldEntries == {DayEntry(2, Str("deadline pressure")), DayEntry(5, Str("gym then running"))}

\* the date strings of those days
DateStrOf == [d \in OldDays \cup RecentDays |-> DateStr(d)]

\* the entries of a store drawn over those days: per day none (NoEntry) or one entry
SavedOf(f) ==
    [date \in {DateStrOf[d] : d \in {x \in DOMAIN f : f[x] # NoEntry}} |->
        f[CHOOSE d \in DOMAIN f : DateStrOf[d] = date]]

\* the store after saveDayEntry of each entry of `entries`
StoreOf(entries) ==
    [k \in {EntryKey(date) : date \in DOMAIN entries} |->
        JSONstringify(entries[StripPrefix(k, STORAGE_PREFIX)])]

\* the first day of the trend-classifier windows: 2024-09-27
FirstTrendDay == DaysFromCivil(2024, 9, 27)

\* the date strings of the days of the trend-classifier windows
TrendDay == [i \in 1..MaxTrendDays |-> DateStr(FirstTrendDay + i - 1)]

\* a window from the ratings of its days (0: the day has no entry)
WindowOf(f) ==
    [date \in {TrendDay[i] : i \in {j \in DOMAIN f : f[j] > 0}} |->
        DayEntry(f[CHOOSE i \in DOMAIN f : TrendDay[i] = date], <<>>)]

\* the dates the user rates while an analysis may run: yesterday and today
StoreDates == {DateStr(Today - 1), DateStr(Today)}

\* setItem
SetItem(store, key, value) ==
    [k \in DOMAIN store \cup {key} |-> IF k = key THEN value ELSE store[k]]

\* removeItem
RemoveItem(store, key) == [k \in DOMAIN store \ {key} |-> store[k]]

-----------------------------------------------------------------------------
(* The operations on the store *)

InFlight == pc \in {"getAllKeys", "multiGet"}

\* a write that completes: the store changes, and a call in flight has one more
\* store content behind it
Write(newStorage) ==
    /\ pc # "returned"
    /\ InFlight => writes < MaxWrites
    /\ storage' = newStorage
    /\ seen' = IF InFlight THEN seen \cup {newStorage} ELSE seen
    /\ writes' = IF InFlight THEN writes + 1 ELSE writes

UnchangedCall == UNCHANGED <<pc, keys, allEntries, recentEntries, clock, report, failed>>

UnchangedTrend == UNCHANGED <<tEntries, tResult>>

UnchangedGenerator == UNCHANGED <<gInput, gOut>>

UnchangedThemes == UNCHANGED <<xEntries, xRuns>>

UnchangedNotify ==
    UNCHANGED <<wallClock, permission, scheduled, notified, setup, handler, modal, auto>>

UnchangedGate == UNCHANGED <<gate, listener, appState, attempt, screen, history>>

\* the screens and the reminder
UnchangedModal == UNCHANGED <<calendarScreen, ratingModal>>

UnchangedWords == UNCHANGED <<wInput, wOut>>

UnchangedApp == UnchangedNotify /\ UnchangedGate /\ UnchangedModal /\ UnchangedWords

\* what the store and the analysis call leave alone
UnchangedRest == UnchangedGenerator /\ UnchangedThemes /\ UnchangedApp

\* saveDayEntry(date, entry)
SaveDayEntry(date, entry) ==
    /\ Write(SetItem(storage, EntryKey(date), JSONstringify(entry)))
    /\ saved' = SetItem(saved, date, entry)
    /\ UnchangedCall /\ UnchangedTrend /\ UnchangedRest

\* setPasscode(passcode); the three operations of utils/auth are run between analyses
SetPasscode(passcode) ==
    /\ pc = "idle"
    /\ Write(SetItem(storage, PASSCODE_KEY, passcode))
    /\ UNCHANGED saved /\ UnchangedCall /\ UnchangedTrend /\ UnchangedRest

\* setAuthEnabled(enabled)
SetAuthEnabled(enabled) ==
    /\ pc = "idle"
    /\ Write(SetItem(storage, AUTH_ENABLED_KEY, BoolText(enabled)))
    /\ UNCHANGED saved /\ UnchangedCall /\ UnchangedTrend /\ UnchangedRest

\* clearAuth: both removeItem calls (the store between the two is a store
\* setAuthEnabled alone reaches)
ClearAuth ==
    /\ pc = "idle"
    /\ PASSCODE_KEY \in DOMAIN storage \/ AUTH_ENABLED_KEY \in DOMAIN storage
    /\ Write(RemoveItem(RemoveItem(storage, PASSCODE_KEY), AUTH_ENABLED_KEY))
    /\ UNCHANGED saved /\ UnchangedCall /\ UnchangedTrend /\ UnchangedRest

-----------------------------------------------------------------------------
(* One analyzeLastMonth call: getAllKeys and multiGet are its two store reads;  *)
(* what follows the second read runs without another store operation between. *)

AnalyzeCall ==
    /\ pc = "idle"
    /\ pc' = "getAllKeys"
    /\ keys' = {}
    /\ allEntries' = EmptyObject
    /\ recentEntries' = EmptyObject
    /\ clock' = NoClock
    /\ report' = NoReport
    /\ seen' = {storage}
    /\ writes' = 0
    /\ failed' = FALSE
    /\ UNCHANGED <<storage, saved>> /\ UnchangedTrend /\ UnchangedRest

\* await AsyncStorage.getAllKeys() resolves
GetAllKeysResolve ==
    /\ pc = "getAllKeys"
    /\ keys' = DOMAIN storage
    /\ pc' = "multiGet"
    /\ UNCHANGED <<storage, saved, allEntries, recentEntries, clock, report, seen,
                   writes, failed>>
    /\ UnchangedTrend /\ UnchangedRest

\* from the value of getAllDayEntries to the returned report
Finish(all) ==
    /\ allEntries' = all
    /\ \E hour \in ClockHours, zone \in Zones :
        /\ clock' = [hour |-> hour, zone |-> zone]
        /\ recentEntries' = SelectWindow(allEntries', TimeValue(Today, hour, zone), WindowDays)
    /\ report' = Report(recentEntries')
    /\ pc' = "returned"

\* await AsyncStorage.multiGet(dayKeys) resolves
MultiGetResolve ==
    /\ pc = "multiGet"
    /\ Finish(ParseAllEntries(keys, storage))
    /\ UNCHANGED <<storage, saved, keys, seen, writes, failed>>
    /\ UnchangedTrend /\ UnchangedRest

\* one of the two reads rejects: the catch of getAllDayEntries
ReadReject ==
    /\ InFlight
    /\ failed' = TRUE
    /\ Finish(GetAllDayEntriesCatch)
    /\ UNCHANGED <<storage, saved, keys, seen, writes>>
    /\ UnchangedTrend /\ UnchangedRest

\* loadAnalysis takes the report: setAnalysis(result), in the turn the call returns in
LoadAnalysisDone ==
    /\ pc = "returned"
    /\ pc' = "idle"
    /\ keys' = {}
    /\ allEntries' = EmptyObject
    /\ recentEntries' = EmptyObject
    /\ clock' = NoClock
    /\ report' = NoReport
    /\ seen' = {}
    /\ writes' = 0
    /\ failed' = FALSE
    /\ UNCHANGED <<storage, saved>> /\ UnchangedTrend /\ UnchangedRest

-----------------------------------------------------------------------------
(* The states no operation of a part has started in *)

GeneratorIdle == gInput = NoInput /\ gOut = NoOutput

ThemesIdle == xEntries = EmptyObject /\ xRuns = <<>>

\* no setupSmartNotifications call, no handleSaveEntry call, the modal closed
\* and no auto-save timer
SetupIdle == [pc |-> "idle", today |-> 0]

HandlerIdle == [pc |-> "idle", date |-> <<>>, day |-> 0]

ModalClosed == [visible |-> FALSE, date |-> <<>>]

AutoIdle == [pc |-> "idle", date |-> <<>>, rating |-> 0]

NotifyIdle ==
    /\ wallClock = [day |-> 0, late |-> FALSE]
    /\ permission = FALSE
    /\ scheduled = 0
    /\ notified = {}
    /\ setup = [caller \in {"launch", "save"} |-> SetupIdle]
    /\ handler = HandlerIdle
    /\ modal = ModalClosed
    /\ auto = AutoIdle

\* RootLayout as useState initializes it, before its effects have run
GateMounted == [isAuthenticated |-> FALSE, authRequired |-> FALSE, isCheckingAuth |-> TRUE]

\* the dependencies [authRequired, isAuthenticated] of the listener effect
Closure(g) == [authRequired |-> g.authRequired, isAuthenticated |-> g.isAuthenticated]

NoAttempt == [kind |-> "none", passcode |-> <<>>]

\* AuthScreen as useState initializes it: an empty passcode field; each pending
\* auto-submit timer is the `passcode` its handlePasscodeSubmit closes over
ScreenMounted == [passcode |-> <<>>, timers |-> <<>>]

\* keyed: the digits of the passcode field typed one at a time since it was
\* empty; authenticated: onAuthenticated was called since the last launch or
\* return to the foreground; checked: a biometric or passcode check succeeded
\* lastSave: the date and entry of the last handleSaveEntry that completed,
\* until the user edits that date again; saveCalls: the saveDayEntry calls the
\* rating modal has made
NoSave == [date |-> <<>>, entry |-> NoEntry]

NoHistory ==
    [keyed |-> 0, authenticated |-> FALSE, checked |-> FALSE, lastSave |-> NoSave,
     saveCalls |-> 0]

\* CalendarScreen as useState initializes it, with no call in flight
CalendarMounted ==
    [modalVisible |-> FALSE, selectedDate |-> <<>>, selectedEntry |-> NoEntry,
     datePresses |-> <<>>, saveEntries |-> <<>>]

\* saveTimeoutRef: no timer pending
NoTimer == [pending |-> FALSE, text |-> <<>>, rating |-> 0, date |-> <<>>]

\* RatingModal as useState initializes it under the props of CalendarMounted
RatingModalMounted ==
    [rating |-> 0, description |-> <<>>,
     deps |-> [visible |-> FALSE, initialRating |-> 0, initialDescription |-> <<>>],
     saveTimeout |-> NoTimer, autoSaves |-> <<>>, alert |-> "none"]

ModalIdle == calendarScreen = CalendarMounted /\ ratingModal = RatingModalMounted

\* no text handed to calculateWordCount, and no value returned
NoText == <<0>>

NoCount == 0 - 1

WordsIdle == wInput = NoText /\ wOut = NoCount

GateIdle ==
    /\ gate = GateMounted
    /\ listener = Closure(GateMounted)
    /\ appState = "active"
    /\ attempt = NoAttempt
    /\ screen = ScreenMounted
    /\ history = NoHistory

AppIdle == NotifyIdle /\ GateIdle /\ ModalIdle /\ WordsIdle

RestIdle == GeneratorIdle /\ ThemesIdle /\ AppIdle

TrendIdle == tEntries = EmptyObject /\ tResult = NoTrendResult

AnalysisIdle ==
    /\ storage = EmptyObject
    /\ saved = EmptyObject
    /\ pc = "idle"
    /\ keys = {}
    /\ allEntries = EmptyObject
    /\ recentEntries = EmptyObject
    /\ clock = NoClock
    /\ report = NoReport
    /\ seen = {}
    /\ writes = 0
    /\ failed = FALSE

UnchangedAnalysis == UNCHANGED <<storage, saved>> /\ UnchangedCall /\ UNCHANGED <<seen, writes>>

-----------------------------------------------------------------------------
(* Spec: the store written while analyses run *)

Init ==
    /\ storage = EmptyObject
    /\ saved = EmptyObject
    /\ pc = "idle"
    /\ keys = {}
    /\ allEntries = EmptyObject
    /\ recentEntries = EmptyObject
    /\ clock = NoClock
    /\ report = NoReport
    /\ seen = {}
    /\ writes = 0
    /\ failed = FALSE
    /\ tEntries = EmptyObject
    /\ tResult = NoTrendResult
    /\ RestIdle

Next ==
    \/ \E date \in StoreDates, entry \in StoreEntries : SaveDayEntry(date, entry)
    \/ \E passcode \in Passcodes : SetPasscode(passcode)
    \/ \E enabled \in BOOLEAN : SetAuthEnabled(enabled)
    \/ ClearAuth
    \/ AnalyzeCall
    \/ GetAllKeysResolve
    \/ MultiGetResolve
    \/ ReadReject
    \/ LoadAnalysisDone

Spec == Init /\ [][Next]_vars

-----------------------------------------------------------------------------
(* SpecReport: analyzeLastMonth on every store drawn over ReportDays *)

InitReport ==
    /\ \E old \in [OldDays -> OldEntries \cup {NoEntry}],
          recent \in [RecentDays -> SampleEntries \cup {NoEntry}],
          withPasscode \in BOOLEAN :
        /\ saved = SavedOf(old @@ recent)
        /\ storage = IF withPasscode
                     THEN SetItem(StoreOf(saved), PASSCODE_KEY, Str("1234"))
                     ELSE StoreOf(saved)
    /\ pc = "idle"
    /\ keys = {}
    /\ allEntries = EmptyObject
    /\ recentEntries = EmptyObject
    /\ clock = NoClock
    /\ report = NoReport
    /\ seen = {}
    /\ writes = 0
    /\ failed = FALSE
    /\ tEntries = EmptyObject
    /\ tResult = NoTrendResult
    /\ RestIdle

NextReport ==
    \/ AnalyzeCall
    \/ GetAllKeysResolve
    \/ MultiGetResolve
    \/ LoadAnalysisDone

SpecReport == InitReport /\ [][NextReport]_vars

-----------------------------------------------------------------------------
(* SpecTrend: analyzeRatingTrend on every window of TrendWindows *)

TrendClassify ==
    /\ tResult = NoTrendResult
    /\ tResult' = TrendRun(tEntries)
    /\ UNCHANGED <<storage, saved, pc, keys, allEntries, recentEntries, clock, report,
                   seen, writes, failed, tEntries>>
    /\ UnchangedRest

InitTrend ==
    \* the windows the classifier is run on: over MaxTrendDays days with ratings 1
    \* and 2, over the first MaxFullDays of them with every rating
    /\ \/ \E f \in [1..MaxTrendDays -> {0, 1, 2}] : tEntries = WindowOf(f)
       \/ \E f \in [1..MaxFullDays -> {0} \cup Ratings] : tEntries = WindowOf(f)
    /\ tResult = NoTrendResult
    /\ storage = EmptyObject
    /\ saved = EmptyObject
    /\ pc = "idle"
    /\ keys = {}
    /\ allEntries = EmptyObject
    /\ recentEntries = EmptyObject
    /\ clock = NoClock
    /\ report = NoReport
    /\ seen = {}
    /\ writes = 0
    /\ failed = FALSE
    /\ RestIdle

NextTrend == TrendClassify

SpecTrend == InitTrend /\ [][NextTrend]_vars

-----------------------------------------------------------------------------
(* SpecRules: the generator stage of analyzeLastMonth (what follows the trend  *)
(* and theme stages) on every combination of its inputs                       *)

\* the labels extractThemes can return, in the order of the keyword table
ThemeLabels == [t \in 1..Len(keywords) |-> Capitalize(keywords[t].theme)]

\* the theme lists: up to MaxInputThemes distinct labels, in any order
ThemeLists ==
    UNION { { [i \in 1..n |-> ThemeLabels[f[i]]] :
                f \in {g \in [1..n -> 1..Len(keywords)] :
                          \A i, j \in 1..n : i # j => g[i] # g[j]} } :
            n \in 0..MaxInputThemes }

\* the numbers of rated days of a non-empty window: around the tiers of the
\* consistency insight, and the whole window
RuleDayCounts == {1, 14, 15, 24, 25, WindowDays}

\* the rating totals of n rated days: around the tiers of the mood insight
TotalsOf(n) == {t \in {n, 3 * n - 1, 3 * n, 4 * n - 1, 4 * n, 5 * n} : t >= n}

TrendLabels == {"improving", "declining", "stable"}

\* lines 196-216 and 250-254 of analyzeLastMonth: the insights and the
\* recommendations of a window of gInput.days entries
Generate ==
    /\ gInput # NoInput
    /\ gOut = NoOutput
    /\ gOut' =
        IF gInput.days = 0
        THEN [insights |-> NoDataReport.insights,
              recommendations |-> NoDataReport.recommendations]
        ELSE LET entries == [i \in 1..gInput.days |-> i]
                 averageRating == Double(gInput.total, gInput.days)
             IN  [insights |-> generateInsights(entries, averageRating,
                                                gInput.trend, gInput.themes),
                  recommendations |-> generateRecommendations(averageRating,
                                                gInput.trend, gInput.themes)]
    /\ UNCHANGED gInput
    /\ UnchangedAnalysis /\ UnchangedTrend /\ UnchangedThemes /\ UnchangedApp

InitRules ==
    /\ \/ gInput = [days |-> 0, total |-> 0, trend |-> "stable", themes |-> <<>>]
       \/ \E days \in RuleDayCounts, trend \in TrendLabels, themes \in ThemeLists :
            \E total \in TotalsOf(days) :
                gInput = [days |-> days, total |-> total, trend |-> trend, themes |-> themes]
    /\ gOut = NoOutput
    /\ AnalysisIdle
    /\ TrendIdle
    /\ ThemesIdle
    /\ AppIdle

NextRules == Generate

SpecRules == InitRules /\ [][NextRules]_vars

-----------------------------------------------------------------------------
(* SpecThemes: extractThemes, run twice, on every window of ThemeTexts *)

\* the notes of the windows: words that begin with a keyword ("Finished",
\* "Reading", "winter"), a word that only contains one ("homework"), upper
\* case, punctuation, a note without any keyword and an empty note
ThemeTexts ==
    << <<>>,
      Str("Gym with a friend after WORK"),
      Str("Study, stress and a deadline"),
      Str("Finished the project!"),
      Str("Reading books; winter homework"),
      Str("Family dinner, then sleep"),
      Str("Worry. Anxiety. Overwhelmed."),
      Str("Nothing special") >>

\* the date strings of the days of the theme windows: the most recent days
ThemeDay == [i \in 1..MaxThemeDays |-> DateStr(Today - i + 1)]

\* const themes = extractThemes(entries)
ExtractThemes ==
    /\ Len(xRuns) < MaxThemeRuns
    /\ xRuns' = Append(xRuns, extractThemes(xEntries))
    /\ UNCHANGED xEntries
    /\ UnchangedAnalysis /\ UnchangedTrend /\ UnchangedGenerator /\ UnchangedApp

InitThemes ==
    \* per day no entry (0) or an entry with one of the notes
    /\ \E f \in [1..MaxThemeDays -> 0..Len(ThemeTexts)] :
        xEntries = [date \in {ThemeDay[i] : i \in {j \in DOMAIN f : f[j] > 0}} |->
                        DayEntry(3, ThemeTexts[f[CHOOSE i \in DOMAIN f : ThemeDay[i] = date]])]
    /\ xRuns = <<>>
    /\ AnalysisIdle
    /\ TrendIdle
    /\ GeneratorIdle
    /\ AppIdle

NextThemes == ExtractThemes

SpecThemes == InitThemes /\ [][NextThemes]_vars

-----------------------------------------------------------------------------
(* SpecNotify: the reminder.  One app process: RootLayout mounts once and runs *)
(* setupSmartNotifications; the user opens the rating modal, types (which arms *)
(* the auto-save timer) and saves; the clock passes 21:00 and midnight.  Every *)
(* await is a step of its own; the dynamic imports resolve in the step of the  *)
(* call.  Store reads and writes complete.                                     *)

\* formatDate(new Date()) on each day of the clock
NotifyDay == [i \in 0..(MaxNotifyDays - 1) |-> DateStr(Today + i)]

\* { rating, description } of handleSaveEntry, and of autoSaveDiary (the text
\* typed when the timer was armed)
SavedEntry == DayEntry(4, Str("Dinner with friends"))

DraftEntry == DayEntry(4, Str("Dinner"))

UnchangedEngine ==
    /\ UnchangedCall /\ UNCHANGED <<seen, writes>>
    /\ UnchangedTrend /\ UnchangedGenerator /\ UnchangedThemes
    /\ UnchangedGate /\ UnchangedModal /\ UnchangedWords

\* await saveDayEntry(date, entry) resolves
StoreEntry(date, entry) ==
    /\ storage' = SetItem(storage, EntryKey(date), JSONstringify(entry))
    /\ saved' = SetItem(saved, date, entry)

\* whether the day of the clock has an entry: what `if (todayEntry)` tests
Rated(day) == getDayEntry(storage, NotifyDay[day]) # NoEntry

\* setupSmartNotifications is called: today = formatDate(new Date())
StartSetup(caller) ==
    setup' = [setup EXCEPT ![caller] = [pc |-> "getDayEntry", today |-> wallClock.day]]

SetupAt(caller, position) == setup[caller].pc = position

SetupGoes(caller, position) == setup' = [setup EXCEPT ![caller].pc = position]

\* RootLayout: the effect that initializes the notifications on mount
Launch ==
    /\ SetupAt("launch", "idle")
    /\ StartSetup("launch")
    /\ UNCHANGED <<storage, saved, wallClock, permission, scheduled, notified,
                   handler, modal, auto>>
    /\ UnchangedEngine

\* await getDayEntry(today) resolves: the branch on todayEntry
SetupRead(caller) ==
    /\ SetupAt(caller, "getDayEntry")
    /\ SetupGoes(caller, IF Rated(setup[caller].today) THEN "cancel" ELSE "permissions")
    /\ UNCHANGED <<storage, saved, wallClock, permission, scheduled, notified,
                   handler, modal, auto>>
    /\ UnchangedEngine

\* today is rated: await cancelAllScheduledNotificationsAsync() resolves
SetupCancel(caller) ==
    /\ SetupAt(caller, "cancel")
    /\ scheduled' = 0
    /\ SetupGoes(caller, "done")
    /\ UNCHANGED <<storage, saved, wallClock, permission, notified, handler, modal, auto>>
    /\ UnchangedEngine

\* scheduleDailyNotification: await requestNotificationPermissions() resolves
SchedulePermissions(caller) ==
    /\ SetupAt(caller, "permissions")
    /\ SetupGoes(caller, IF permission THEN "cancelAll" ELSE "done")
    /\ UNCHANGED <<storage, saved, wallClock, permission, scheduled, notified,
                   handler, modal, auto>>
    /\ UnchangedEngine

\* scheduleDailyNotification: await cancelAllScheduledNotificationsAsync() resolves
ScheduleCancelAll(caller) ==
    /\ SetupAt(caller, "cancelAll")
    /\ scheduled' = 0
    /\ SetupGoes(caller, "schedule")
    /\ UNCHANGED <<storage, saved, wallClock, permission, notified, handler, modal, auto>>
    /\ UnchangedEngine

\* scheduleDailyNotification: await scheduleNotificationAsync(DAILY 21:00) resolves
ScheduleResolve(caller) ==
    /\ SetupAt(caller, "schedule")
    /\ scheduled' = scheduled + 1
    /\ SetupGoes(caller, "done")
    /\ UNCHANGED <<storage, saved, wallClock, permission, notified, handler, modal, auto>>
    /\ UnchangedEngine

\* CalendarScreen.handleDatePress: a day up to today (maxDate) is pressed and
\* the modal opens for it
HandleDatePress(day) ==
    /\ ~modal.visible
    /\ day <= wallClock.day
    /\ modal' = [visible |-> TRUE, date |-> NotifyDay[day]]
    /\ UNCHANGED <<storage, saved, wallClock, permission, scheduled, notified,
                   setup, handler, auto>>
    /\ UnchangedEngine

\* CalendarScreen.handleCloseModal: selectedDate stays
HandleCloseModal ==
    /\ modal.visible
    /\ modal' = [modal EXCEPT !.visible = FALSE]
    /\ UNCHANGED <<storage, saved, wallClock, permission, scheduled, notified,
                   setup, handler, auto>>
    /\ UnchangedEngine

\* RatingModal.handleSave with a rating chosen: onSave is handleSaveEntry, which
\* calls saveDayEntry(selectedDate, ...)
HandleSave(rating) ==
    /\ modal.visible
    /\ handler.pc = "idle"
    /\ rating # 0
    /\ handler' = [pc |-> "saveDayEntry", date |-> modal.date, day |-> 0]
    /\ UNCHANGED <<storage, saved, wallClock, permission, scheduled, notified,
                   setup, modal, auto>>
    /\ UnchangedEngine

\* handleSaveEntry: await saveDayEntry resolves; setModalVisible(false), and
\* loadEntries is called
SaveResolve ==
    /\ handler.pc = "saveDayEntry"
    /\ StoreEntry(handler.date, SavedEntry)
    /\ modal' = [modal EXCEPT !.visible = FALSE]
    /\ handler' = [handler EXCEPT !.pc = "loadEntries", !.day = wallClock.day]
    /\ UNCHANGED <<wallClock, permission, scheduled, notified, setup, auto>>
    /\ UnchangedEngine

\* handleSaveEntry: await loadEntries() resolves, and setupSmartNotifications is called
LoadEntriesResolve ==
    /\ handler.pc = "loadEntries"
    /\ handler' = [handler EXCEPT !.pc = "setup"]
    /\ StartSetup("save")
    /\ UNCHANGED <<storage, saved, wallClock, permission, scheduled, notified, modal, auto>>
    /\ UnchangedEngine

\* handleSaveEntry: await setupSmartNotifications() resolves; the alert is shown
SetupReturn ==
    /\ handler.pc = "setup"
    /\ SetupAt("save", "done")
    /\ handler' = [handler EXCEPT !.pc = "alert"]
    /\ setup' = [setup EXCEPT !["save"] = SetupIdle]
    /\ UNCHANGED <<storage, saved, wallClock, permission, scheduled, notified, modal, auto>>
    /\ UnchangedEngine

\* the alert is dismissed
AlertDismiss ==
    /\ handler.pc = "alert"
    /\ handler' = HandlerIdle
    /\ UNCHANGED <<storage, saved, wallClock, permission, scheduled, notified,
                   setup, modal, auto>>
    /\ UnchangedEngine

\* RatingModal.handleDescriptionChange within the limit: the timer is cleared
\* and set again, with the text and the rating of this render
HandleDescriptionChange(rating) ==
    /\ modal.visible
    /\ auto.pc \in {"idle", "timer"}
    /\ auto' = [pc |-> "timer", date |-> modal.date, rating |-> rating]
    /\ UNCHANGED <<storage, saved, wallClock, permission, scheduled, notified,
                   setup, handler, modal>>
    /\ UnchangedEngine

\* the timer fires, AUTO_SAVE_DELAY after the last change: autoSaveDiary returns
\* at once without a rating, and calls saveDayEntry with one
TimerFires ==
    /\ auto.pc = "timer"
    /\ auto' = IF auto.rating = 0 THEN AutoIdle ELSE [auto EXCEPT !.pc = "saveDayEntry"]
    /\ UNCHANGED <<storage, saved, wallClock, permission, scheduled, notified,
                   setup, handler, modal>>
    /\ UnchangedEngine

\* autoSaveDiary: await saveDayEntry resolves
AutoSaveResolve ==
    /\ auto.pc = "saveDayEntry"
    /\ StoreEntry(auto.date, DraftEntry)
    /\ auto' = AutoIdle
    /\ UNCHANGED <<wallClock, permission, scheduled, notified, setup, handler, modal>>
    /\ UnchangedEngine

\* 21:00: the scheduled reminder fires
NinePM ==
    /\ ~wallClock.late
    /\ wallClock' = [wallClock EXCEPT !.late = TRUE]
    /\ notified' = IF scheduled > 0
                   THEN notified \cup {[day |-> wallClock.day, rated |-> Rated(wallClock.day)]}
                   ELSE notified
    /\ UNCHANGED <<storage, saved, permission, scheduled, setup, handler, modal, auto>>
    /\ UnchangedEngine

\* midnight: the next day begins
Midnight ==
    /\ wallClock.late
    /\ wallClock.day + 1 < MaxNotifyDays
    /\ wallClock' = [day |-> wallClock.day + 1, late |-> FALSE]
    /\ UNCHANGED <<storage, saved, permission, scheduled, notified, setup, handler,
                   modal, auto>>
    /\ UnchangedEngine

InitNotify ==
    /\ AnalysisIdle
    /\ TrendIdle
    /\ GeneratorIdle
    /\ ThemesIdle
    /\ wallClock \in [day : {0}, late : BOOLEAN]
    /\ permission \in BOOLEAN
    /\ scheduled = 0
    /\ notified = {}
    /\ setup = [caller \in {"launch", "save"} |-> SetupIdle]
    /\ handler = HandlerIdle
    /\ modal = ModalClosed
    /\ auto = AutoIdle
    /\ GateIdle
    /\ ModalIdle
    /\ WordsIdle

NextNotify ==
    \/ Launch
    \/ \E caller \in {"launch", "save"} :
        \/ SetupRead(caller)
        \/ SetupCancel(caller)
        \/ SchedulePermissions(caller)
        \/ ScheduleCancelAll(caller)
        \/ ScheduleResolve(caller)
    \/ \E day \in DOMAIN NotifyDay : HandleDatePress(day)
    \/ HandleCloseModal
    \/ \E rating \in Ratings : HandleSave(rating)
    \/ SaveResolve
    \/ LoadEntriesResolve
    \/ SetupReturn
    \/ AlertDismiss
    \/ \E rating \in {0, 4} : HandleDescriptionChange(rating)
    \/ TimerFires
    \/ AutoSaveResolve
    \/ NinePM
    \/ Midnight

SpecNotify == InitNotify /\ [][NextNotify]_vars

-----------------------------------------------------------------------------
(* SpecGate: the authentication gate of RootLayout.  The state after mount:  *)
(* checkAuth is waiting for isAuthEnabled and the AppState listener is       *)
(* subscribed.  A state change re-renders; the listener effect, whose        *)
(* dependencies are [authRequired, isAuthenticated], subscribes the listener *)
(* of the new render in a later step (useEffect runs after the commit).      *)

\* isAuthEnabled: enabled === 'true'
isAuthEnabled(store) ==
    AUTH_ENABLED_KEY \in DOMAIN store /\ store[AUTH_ENABLED_KEY] = TextTrue

\* verifyPasscode: storedPasscode === passcode
verifyPasscode(store, passcode) ==
    PASSCODE_KEY \in DOMAIN store /\ store[PASSCODE_KEY] = passcode

\* what RootLayout renders
AuthScreenShown == ~gate.isCheckingAuth /\ gate.authRequired /\ ~gate.isAuthenticated

ContentShown == ~gate.isCheckingAuth /\ ~(gate.authRequired /\ ~gate.isAuthenticated)

\* the effects of the last render have run: they do within the frame, before
\* the user (or the 500 ms timer of AuthScreen) acts again
EffectsFlushed == listener = Closure(gate)

UnchangedOutsideGate ==
    /\ UnchangedAnalysis /\ UnchangedTrend /\ UnchangedGenerator /\ UnchangedThemes
    /\ UnchangedNotify /\ UnchangedModal /\ UnchangedWords

\* checkAuth: await isAuthEnabled() resolves; isAuthEnabled returns false
\* when its AsyncStorage.getItem rejects
CheckAuthResolve(rejected) ==
    /\ gate.isCheckingAuth
    /\ LET required == IF rejected THEN FALSE ELSE isAuthEnabled(storage)
       IN  gate' = [authRequired |-> required,
                    isAuthenticated |-> IF ~required THEN TRUE ELSE gate.isAuthenticated,
                    isCheckingAuth |-> FALSE]
    /\ UNCHANGED <<listener, appState, attempt, screen, history>>
    /\ UnchangedOutsideGate

\* the listener effect runs after a render that changed its dependencies:
\* subscription.remove() and addEventListener with the values of that render
ListenerEffect ==
    /\ listener # Closure(gate)
    /\ listener' = Closure(gate)
    /\ UNCHANGED <<gate, appState, attempt, screen, history>>
    /\ UnchangedOutsideGate

\* AppState 'change': the subscribed listener runs; the AuthScreen a
\* revocation mounts starts with an empty passcode
AppStateChange(nextAppState) ==
    /\ nextAppState # appState
    /\ appState' = nextAppState
    /\ LET revoked == nextAppState = "active" /\ listener.authRequired
                        /\ listener.isAuthenticated
       IN  /\ gate' = IF revoked THEN [gate EXCEPT !.isAuthenticated = FALSE] ELSE gate
           /\ screen' = IF revoked /\ gate.isAuthenticated
                        THEN [screen EXCEPT !.passcode = <<>>] ELSE screen
           /\ history' = [history EXCEPT
                            !.authenticated = IF nextAppState = "active" THEN FALSE ELSE @,
                            !.keyed = IF revoked /\ gate.isAuthenticated THEN 0 ELSE @]
    /\ UNCHANGED <<listener, attempt>>
    /\ UnchangedOutsideGate

\* text.replace(/[^0-9]/g, '')
NumericText(text) == SelectSeq(text, IsDigit)

\* AuthScreen.handlePasscodeChange(text): the timer it sets calls the
\* handlePasscodeSubmit of the render the change happened in, which closes
\* over the passcode of that render
HandlePasscodeChange(text) ==
    /\ AuthScreenShown
    /\ EffectsFlushed
    /\ Len(screen.timers) < MaxSubmitTimers
    /\ LET numericText == NumericText(text)
       IN  IF Len(numericText) <= 4
           THEN /\ screen' = [passcode |-> numericText,
                              timers |-> IF Len(numericText) = 4
                                         THEN Append(screen.timers, screen.passcode)
                                         ELSE screen.timers]
                /\ history' = [history EXCEPT !.keyed =
                                 IF /\ Len(text) = Len(screen.passcode) + 1
                                    /\ SubSeq(text, 1, Len(screen.passcode)) = screen.passcode
                                    /\ numericText = text
                                    /\ history.keyed = Len(screen.passcode)
                                 THEN Len(text) ELSE 0]
           ELSE UNCHANGED <<screen, history>>
    /\ UNCHANGED <<gate, listener, appState, attempt>>
    /\ UnchangedOutsideGate

\* the auto-submit timer fires, 200 ms after the change that set it:
\* AuthScreen.handlePasscodeSubmit, up to its await verifyPasscode(passcode)
HandlePasscodeSubmit ==
    /\ screen.timers # <<>>
    /\ attempt = NoAttempt
    /\ LET passcode == Head(screen.timers)
       IN  attempt' = IF Len(passcode) # 4 THEN NoAttempt
                      ELSE [kind |-> "passcode", passcode |-> passcode]
    /\ screen' = [screen EXCEPT !.timers = Tail(screen.timers)]
    /\ UNCHANGED <<gate, listener, appState, history>>
    /\ UnchangedOutsideGate

\* AuthScreen.handleBiometricAuth: authenticateWithBiometrics is called
HandleBiometricAuth ==
    /\ AuthScreenShown
    /\ EffectsFlushed
    /\ attempt = NoAttempt
    /\ attempt' = [kind |-> "biometric", passcode |-> <<>>]
    /\ UNCHANGED <<gate, listener, appState, screen, history>>
    /\ UnchangedOutsideGate

\* handleAuthenticated: setIsAuthenticated(true); the AuthScreen unmounts
HandleAuthenticated ==
    /\ gate' = [gate EXCEPT !.isAuthenticated = TRUE]
    /\ screen' = [screen EXCEPT !.passcode = <<>>]
    /\ history' = [history EXCEPT !.keyed = 0, !.authenticated = TRUE, !.checked = TRUE]

\* await verifyPasscode(passcode) resolves
PasscodeResolve ==
    /\ attempt.kind = "passcode"
    /\ IF verifyPasscode(storage, attempt.passcode) THEN HandleAuthenticated
       ELSE /\ screen' = [screen EXCEPT !.passcode = <<>>]
            /\ history' = [history EXCEPT !.keyed = 0]
            /\ UNCHANGED gate
    /\ attempt' = NoAttempt
    /\ UNCHANGED <<listener, appState>>
    /\ UnchangedOutsideGate

\* await authenticateWithBiometrics() resolves, with the result of the prompt
BiometricResolve(success) ==
    /\ attempt.kind = "biometric"
    /\ IF success THEN HandleAuthenticated ELSE UNCHANGED <<gate, screen, history>>
    /\ attempt' = NoAttempt
    /\ UNCHANGED <<listener, appState>>
    /\ UnchangedOutsideGate

\* the texts the passcode input reports: the prefixes of the passcodes (a
\* digit typed or deleted, a passcode pasted), a text with a letter in it and
\* a text of five digits
PasscodeTexts ==
    {SubSeq(passcode, 1, n) : passcode \in Passcodes, n \in 0..4}
        \cup {Str("12a"), Str("12345")}

AppStates == {"active", "inactive", "background"}

InitGate ==
    \* the store: the authEnabled flag absent, 'false' or 'true', without a
    \* passcode or with one
    /\ \E flag \in {"absent", "false", "true"}, stored \in Passcodes \cup {<<>>} :
        LET flagged == IF flag = "absent" THEN EmptyObject
                       ELSE SetItem(EmptyObject, AUTH_ENABLED_KEY, BoolText(flag = "true"))
        IN  storage = IF stored # <<>> THEN SetItem(flagged, PASSCODE_KEY, stored)
                      ELSE flagged
    /\ saved = EmptyObject
    /\ pc = "idle"
    /\ keys = {}
    /\ allEntries = EmptyObject
    /\ recentEntries = EmptyObject
    /\ clock = NoClock
    /\ report = NoReport
    /\ seen = {}
    /\ writes = 0
    /\ failed = FALSE
    /\ TrendIdle
    /\ GeneratorIdle
    /\ ThemesIdle
    /\ NotifyIdle
    /\ GateIdle
    /\ ModalIdle
    /\ WordsIdle

NextGate ==
    \/ \E rejected \in BOOLEAN : CheckAuthResolve(rejected)
    \/ ListenerEffect
    \/ \E nextAppState \in AppStates : AppStateChange(nextAppState)
    \/ \E text \in PasscodeTexts : HandlePasscodeChange(text)
    \/ HandlePasscodeSubmit
    \/ HandleBiometricAuth
    \/ PasscodeResolve
    \/ \E success \in BOOLEAN : BiometricResolve(success)

SpecGate == InitGate /\ [][NextGate]_vars

-----------------------------------------------------------------------------
(* CalendarScreen and RatingModal: the diary modal.  SpecNotify above keeps *)
(* of the modal what the reminder depends on (which date is saved, and      *)
(* when); here every handler of the two components is a step of its own.    *)

\* a limit of one character more
MaxCharsHigh == 1512 + 1

MAX_CHARS == 1512

\* a text of n characters
LongText(n) == [i \in 1..n |-> Str("a")[1]]

\* calculateCharCount(text)
calculateCharCount(text) == Len(text)

\* the text the description input reports
DescriptionTexts == {Str("Dinner")}

\* the texts it reports at the limit: one of exactly MAX_CHARS characters and
\* one of a character more
LimitTexts == {LongText(MAX_CHARS), LongText(MAX_CHARS + 1)}

\* the ratings pressed, out of the five of RATINGS
PressedRatings == {2, 4}

\* the days the modal is opened for: today and the days before it
ModalDates == {DateStr(Today - i) : i \in 0..(MaxModalDays - 1)}

\* selectedEntry?.rating || 0 and selectedEntry?.description || ''
InitialRating(selectedEntry) ==
    IF selectedEntry = NoEntry THEN 0 ELSE selectedEntry.rating

InitialDescription(selectedEntry) ==
    IF selectedEntry = NoEntry THEN <<>> ELSE selectedEntry.description

\* the props CalendarScreen renders the RatingModal with, as far as the sync
\* effect depends on them
Props(calendar) ==
    [visible |-> calendar.modalVisible,
     initialRating |-> InitialRating(calendar.selectedEntry),
     initialDescription |-> InitialDescription(calendar.selectedEntry)]

\* the sync effect of the last render has run
ModalFlushed == ratingModal.deps = Props(calendarScreen)

\* what the user can act on: the modal when it is up and no alert covers it
ModalUsable == calendarScreen.modalVisible /\ ModalFlushed /\ ratingModal.alert = "none"

RemoveAt(seq, i) == SubSeq(seq, 1, i - 1) \o SubSeq(seq, i + 1, Len(seq))

\* the history after the user edits a date (again, if it is the date of the
\* last completed Save) and `calls` more saveDayEntry calls are made
Edited(date, calls) ==
    [history EXCEPT !.lastSave = IF @.date = date THEN NoSave ELSE @,
                    !.saveCalls = @ + calls]

Edits(date) == history' = Edited(date, 0)

UnchangedOutsideModal ==
    /\ UnchangedCall /\ UNCHANGED <<seen, writes>>
    /\ UnchangedTrend /\ UnchangedGenerator /\ UnchangedThemes
    /\ UnchangedNotify /\ UnchangedWords
    /\ UNCHANGED <<gate, listener, appState, attempt, screen>>

\* CalendarScreen.handleDatePress, up to its await getDayEntry(date): a day of
\* the calendar behind the closed modal is pressed, or checkTodayRating calls it
handleDatePress(date) ==
    /\ ~calendarScreen.modalVisible
    /\ ModalFlushed
    /\ Len(calendarScreen.datePresses) < MaxDatePresses
    /\ calendarScreen' = [calendarScreen EXCEPT !.selectedDate = date,
                                                !.datePresses = Append(@, date)]
    /\ UNCHANGED <<storage, saved, ratingModal, history>>
    /\ UnchangedOutsideModal

\* handleDatePress: await getDayEntry(date) resolves; setSelectedEntry(entry)
\* and setModalVisible(true)
handleDatePressResolve(i) ==
    /\ i \in DOMAIN calendarScreen.datePresses
    /\ calendarScreen' =
        [calendarScreen EXCEPT
            !.selectedEntry = getDayEntry(storage, calendarScreen.datePresses[i]),
            !.modalVisible = TRUE,
            !.datePresses = RemoveAt(@, i)]
    /\ UNCHANGED <<storage, saved, ratingModal, history>>
    /\ UnchangedOutsideModal

\* RatingModal: the effect on [visible, initialRating, initialDescription]
\* runs after a render that changed one of them
syncEffect ==
    /\ ~ModalFlushed
    /\ LET props == Props(calendarScreen)
       IN  ratingModal' = IF props.visible
                          THEN [ratingModal EXCEPT !.rating = props.initialRating,
                                                   !.description = props.initialDescription,
                                                   !.deps = props]
                          ELSE [ratingModal EXCEPT !.deps = props]
    /\ UNCHANGED <<storage, saved, calendarScreen, history>>
    /\ UnchangedOutsideModal

\* a rating of RATINGS is pressed: setRating(item.rating)
setRating(rating) ==
    /\ ModalUsable
    /\ ratingModal' = [ratingModal EXCEPT !.rating = rating]
    /\ Edits(calendarScreen.selectedDate)
    /\ UNCHANGED <<storage, saved, calendarScreen>>
    /\ UnchangedOutsideModal

\* RatingModal.handleDescriptionChange(text): within the limit the text is
\* taken, the pending timer is cleared and a timer is set that closes over the
\* text and over the rating and the date of this render; beyond the limit the
\* alert is shown
handleDescriptionChange(text) ==
    /\ ModalUsable
    /\ IF calculateCharCount(text) <= MAX_CHARS
       THEN /\ ratingModal' =
                [ratingModal EXCEPT
                    !.description = text,
                    !.saveTimeout = [pending |-> TRUE, text |-> text,
                                     rating |-> ratingModal.rating,
                                     date |-> calendarScreen.selectedDate]]
            /\ Edits(calendarScreen.selectedDate)
       ELSE /\ ratingModal' = [ratingModal EXCEPT !.alert = "Character Limit Reached"]
            /\ UNCHANGED history
    /\ UNCHANGED <<storage, saved, calendarScreen>>
    /\ UnchangedOutsideModal

\* no rating is asked for
RatingNeverRequired(rating) == FALSE

\* if (currentRating === 0) return, and if (rating === 0) { Alert; return }
RatingRequired(rating) == rating = 0

\* the timer fires, AUTO_SAVE_DELAY after the change that set it:
\* autoSaveDiary(text, rating), up to its awaits
autoSaveDiary ==
    /\ ratingModal.saveTimeout.pending
    /\ Len(ratingModal.autoSaves) < MaxSaveCalls
    /\ history.saveCalls < MaxModalSaves
    /\ LET timer == ratingModal.saveTimeout
       IN  /\ ratingModal' =
                [ratingModal EXCEPT
                    !.saveTimeout = NoTimer,
                    !.autoSaves = IF RatingRequired(timer.rating) THEN @
                                  ELSE Append(@, [date |-> timer.date,
                                                  entry |-> DayEntry(timer.rating,
                                                                     timer.text)])]
           /\ history' = [history EXCEPT !.saveCalls =
                            IF RatingRequired(timer.rating) THEN @ ELSE @ + 1]
    /\ UNCHANGED <<storage, saved, calendarScreen>>
    /\ UnchangedOutsideModal

\* autoSaveDiary: await saveDayEntry(date, { rating, description }) resolves
autoSaveDiaryResolve(i) ==
    /\ i \in DOMAIN ratingModal.autoSaves
    /\ StoreEntry(ratingModal.autoSaves[i].date, ratingModal.autoSaves[i].entry)
    /\ ratingModal' = [ratingModal EXCEPT !.autoSaves = RemoveAt(@, i)]
    /\ UNCHANGED <<calendarScreen, history>>
    /\ UnchangedOutsideModal

\* RatingModal.handleSave: without a rating the alert; with one onSave, which
\* is handleSaveEntry up to its await saveDayEntry(selectedDate, ...), and the
\* reset of rating and description
handleSave ==
    /\ ModalUsable
    /\ Len(calendarScreen.saveEntries) < MaxSaveCalls
    /\ history.saveCalls < MaxModalSaves
    /\ IF RatingRequired(ratingModal.rating)
       THEN /\ ratingModal' = [ratingModal EXCEPT !.alert = "Rating Required"]
            /\ UNCHANGED <<calendarScreen, history>>
       ELSE /\ calendarScreen' =
                [calendarScreen EXCEPT !.saveEntries =
                    Append(@, [date |-> calendarScreen.selectedDate,
                               entry |-> DayEntry(ratingModal.rating,
                                                  ratingModal.description)])]
            /\ ratingModal' = [ratingModal EXCEPT !.rating = 0, !.description = <<>>]
            /\ history' = Edited(calendarScreen.selectedDate, 1)
    /\ UNCHANGED <<storage, saved>>
    /\ UnchangedOutsideModal

\* handleSaveEntry: await saveDayEntry resolves and setModalVisible(false);
\* what follows (loadEntries, setupSmartNotifications, the alert) is in SpecNotify
handleSaveEntryResolve(i) ==
    /\ i \in DOMAIN calendarScreen.saveEntries
    /\ StoreEntry(calendarScreen.saveEntries[i].date, calendarScreen.saveEntries[i].entry)
    /\ calendarScreen' = [calendarScreen EXCEPT !.modalVisible = FALSE,
                                                !.saveEntries = RemoveAt(@, i)]
    /\ history' = [history EXCEPT !.lastSave =
                     [date |-> calendarScreen.saveEntries[i].date,
                      entry |-> calendarScreen.saveEntries[i].entry]]
    /\ UNCHANGED ratingModal
    /\ UnchangedOutsideModal

\* RatingModal.handleClose: onClose is handleCloseModal, then the reset
handleClose ==
    /\ ModalUsable
    /\ calendarScreen' = [calendarScreen EXCEPT !.modalVisible = FALSE,
                                                !.selectedEntry = NoEntry]
    /\ ratingModal' = [ratingModal EXCEPT !.rating = 0, !.description = <<>>]
    /\ UNCHANGED <<storage, saved, history>>
    /\ UnchangedOutsideModal

\* the alert is dismissed
dismissAlert ==
    /\ ratingModal.alert # "none"
    /\ ratingModal' = [ratingModal EXCEPT !.alert = "none"]
    /\ UNCHANGED <<storage, saved, calendarScreen, history>>
    /\ UnchangedOutsideModal

InitModal ==
    /\ AnalysisIdle
    /\ seen = {}
    /\ writes = 0
    /\ failed = FALSE
    /\ TrendIdle
    /\ RestIdle

NextModal ==
    \/ \E date \in ModalDates : handleDatePress(date)
    \/ \E i \in 1..MaxDatePresses : handleDatePressResolve(i)
    \/ syncEffect
    \/ \E rating \in PressedRatings : setRating(rating)
    \/ \E text \in DescriptionTexts : handleDescriptionChange(text)
    \/ autoSaveDiary
    \/ \E i \in 1..MaxSaveCalls : autoSaveDiaryResolve(i)
    \/ handleSave
    \/ \E i \in 1..MaxSaveCalls : handleSaveEntryResolve(i)
    \/ handleClose
    \/ dismissAlert

SpecModal == InitModal /\ [][NextModal]_vars

\* the modal at the character limit: today's entry, one rating, long texts
NextLimit ==
    \/ handleDatePress(DateStr(Today))
    \/ \E i \in 1..MaxDatePresses : handleDatePressResolve(i)
    \/ syncEffect
    \/ setRating(4)
    \/ \E text \in LimitTexts : handleDescriptionChange(text)
    \/ autoSaveDiary
    \/ \E i \in 1..MaxSaveCalls : autoSaveDiaryResolve(i)
    \/ handleSave
    \/ \E i \in 1..MaxSaveCalls : handleSaveEntryResolve(i)
    \/ handleClose
    \/ dismissAlert

SpecLimit == InitModal /\ [][NextLimit]_vars

-----------------------------------------------------------------------------
(* utils/wordCountTest: calculateWordCount *)

\* a whitespace class of the space alone
IsSpaceChar(c) == c = 32

\* WhiteSpace and LineTerminator of ECMAScript: what String.prototype.trim
\* strips and what \s matches
IsWhiteSpace(c) ==
    \/ c \in {9, 10, 11, 12, 13, 32, 160, 5760, 8232, 8233, 8239, 8287, 12288, 65279}
    \/ (c >= 8192 /\ c <= 8202)

\* text.trim()
trim(text) ==
    LET inner == {i \in DOMAIN text : ~IsWhiteSpace(text[i])}
    IN  IF inner = {} THEN <<>>
        ELSE SubSeq(text, CHOOSE i \in inner : \A j \in inner : i <= j,
                          CHOOSE i \in inner : \A j \in inner : i >= j)

\* text.split(/\s+/): the pieces between the maximal runs of whitespace, an
\* empty piece before a run at the start and after a run at the end
split(text) ==
    LET RECURSIVE RunEnd(_)
        RunEnd(i) == IF i + 1 <= Len(text) /\ IsWhiteSpace(text[i + 1])
                     THEN RunEnd(i + 1) ELSE i
        RECURSIVE Pieces(_, _)
        Pieces(i, piece) ==
            IF i > Len(text) THEN <<piece>>
            ELSE IF IsWhiteSpace(text[i]) THEN <<piece>> \o Pieces(RunEnd(i) + 1, <<>>)
            ELSE Pieces(i + 1, Append(piece, text[i]))
    IN  Pieces(1, <<>>)

\* words.filter(Boolean): the empty string is falsy
filterBoolean(words) == SelectSeq(words, LAMBDA word : word # <<>>)

calculateWordCount(text) ==
    LET trimmed == trim(text)
    IN  IF Len(trimmed) = 0 THEN 0
        ELSE Len(filterBoolean(split(trimmed)))

\* the characters of the texts: a letter, the space, the tab and the newline
WordAlphabet == {97, 32, 9, 10}

UnchangedOutsideWords ==
    /\ UnchangedAnalysis /\ UnchangedTrend /\ UnchangedGenerator /\ UnchangedThemes
    /\ UnchangedNotify /\ UnchangedGate /\ UnchangedModal

\* calculateWordCount(test.input)
CountWords ==
    /\ wOut = NoCount
    /\ wOut' = calculateWordCount(wInput)
    /\ UNCHANGED wInput
    /\ UnchangedOutsideWords

InitWords ==
    /\ \E n \in 0..MaxWordChars : wInput \in [1..n -> WordAlphabet]
    /\ wOut = NoCount
    /\ AnalysisIdle
    /\ seen = {}
    /\ writes = 0
    /\ failed = FALSE
    /\ TrendIdle
    /\ GeneratorIdle
    /\ ThemesIdle
    /\ NotifyIdle
    /\ GateIdle
    /\ ModalIdle

NextWords == CountWords

SpecWords == InitWords /\ [][NextWords]_vars

-----------------------------------------------------------------------------
(* Properties *)

\* the calendar day of a date of a drawn store
DayOf(date) == CHOOSE d \in DOMAIN DateStrOf : DateStrOf[d] = date

Returned == pc = "returned"

\* C1: when no stored entry is dated within the 30 calendar days before today (or
\* later), analyzeLastMonth returns ratedDays 0, averageRating 0, five empty buckets,
\* the trend 'stable', no theme, exactly one insight and exactly one recommendation.
C1_EmptyWindowReport ==
    (Returned /\ \A date \in DOMAIN saved : DayOf(date) < Today - WindowDays)
        => /\ report.ratedDays = 0
           /\ report.averageRating = Zero
           /\ report.ratingDistribution =
                  [excellent |-> 0, good |-> 0, neutral |-> 0, bad |-> 0, terrible |-> 0]
           /\ report.emotionalTrend = "stable"
           /\ report.topThemes = <<>>
           /\ Len(report.insights) = 1
           /\ Len(report.recommendations) = 1

\* C1 witness: a call returned the no-data report from a store that holds an entry
\* (dated 31 days before today) and a passcode
C1_Witness ==
    /\ Returned
    /\ DOMAIN saved = {DateStrOf[Today - 31]}
    /\ PASSCODE_KEY \in DOMAIN storage
    /\ report = NoDataReport

\* C2: the five buckets of a returned report are natural numbers and add up to ratedDays.
C2_DistributionSum ==
    Returned =>
        LET dist == report.ratingDistribution
        IN  /\ \A b \in DOMAIN dist : dist[b] \in Nat
            /\ dist.excellent + dist.good + dist.neutral + dist.bad + dist.terrible
                   = report.ratedDays

\* C2 witness: a report over four entries with a 5, a 4 and two more ratings
C2_Witness ==
    /\ Returned
    /\ report.ratedDays = 4
    /\ report.ratingDistribution.excellent = 1
    /\ report.ratingDistribution.good = 1
    /\ report.ratingDistribution.terrible = 2

\* the sum of the ratings of a window, and the mean times ten rounded half up, in integers
ExactTotal(entries) ==
    LET RECURSIVE Sum(_)
        Sum(S) == IF S = {} THEN 0
                  ELSE LET d == CHOOSE x \in S : TRUE IN entries[d].rating + Sum(S \ {d})
    IN  Sum(DOMAIN entries)

ExactTenths(entries) ==
    (20 * ExactTotal(entries) + Cardinality(DOMAIN entries))
        \div (2 * Cardinality(DOMAIN entries))

\* C3: with ratedDays > 0, averageRating is the mean rating of the windowed entries
\* rounded to one decimal, a half rounded up, and lies between 1.0 and 5.0.
C3_RoundedMean ==
    (Returned /\ report.ratedDays > 0)
        => /\ report.averageRating = Double(ExactTenths(recentEntries), 10)
           /\ FCmp(report.averageRating, Double(1, 1)) >= 0
           /\ FCmp(report.averageRating, Double(5, 1)) <= 0

\* C3 witness: a report whose mean lies halfway between two tenths (four entries
\* with an odd total: 2.25, 2.75, ...)
C3_Witness ==
    /\ Returned
    /\ report.ratedDays = 4
    /\ ExactTotal(recentEntries) % 2 = 1

\* C4: the window leaves out every entry dated more than 30 calendar days before
\* today and holds the entry dated exactly 30 calendar days before today, at
\* whatever time of day and in whatever zone the call is made.
C4_WindowBoundary ==
    (Returned /\ ~failed) =>
        \A date \in DOMAIN saved :
            /\ DayOf(date) < Today - WindowDays => date \notin DOMAIN recentEntries
            /\ DayOf(date) = Today - WindowDays => date \in DOMAIN recentEntries

\* C5: a call one of whose store reads failed does not return a report.
C5_ReadFailureRejects == failed => ~Returned

\* C6: with no write during the call, getAllDayEntries returns exactly the saved
\* entries: the dates saveDayEntry completed for, each with its latest entry.
C6_AllEntriesAreSaved ==
    (Returned /\ ~failed /\ writes = 0) => allEntries = saved

\* the report analyzeLastMonth computes from one store content, with the clock of the call
ReportAt(store) ==
    Report(SelectWindow(ParseAllEntries(DOMAIN store, store),
                        TimeValue(Today, clock.hour, clock.zone), WindowDays))

\* C7: the report a call returns is the report of the store's contents at one
\* instant of the call, whatever saveDayEntry calls complete during it.
C7_ReportOfOneInstant ==
    (Returned /\ ~failed) => \E store \in seen : report = ReportAt(store)

-----------------------------------------------------------------------------
(* Properties of the trend classifier *)

Classified == tResult # NoTrendResult

\* the dates of the window in the order of their days
Chronological ==
    LET days == {i \in DOMAIN TrendDay : TrendDay[i] \in DOMAIN tEntries}
        RECURSIVE InOrder(_)
        InOrder(S) == IF S = {} THEN <<>>
                      ELSE LET m == CHOOSE x \in S : \A y \in S : x <= y
                           IN  <<TrendDay[m]>> \o InOrder(S \ {m})
    IN  InOrder(days)

EntryCount == Cardinality(DOMAIN tEntries)

\* C8: a window of fewer than 7 entries is classified 'stable'.
C8_SparseIsStable ==
    (Classified /\ EntryCount < 7) => tResult.value = "stable"

\* C8 witness: six entries, the ratings of the later three above those of the earlier three
C8_Witness ==
    /\ Classified
    /\ EntryCount = 6
    /\ \A i \in 1..3 : tEntries[Chronological[i]].rating = 1
    /\ \A i \in 4..6 : tEntries[Chronological[i]].rating = 2

\* the sums of the ratings of the floor(n/2) earliest entries and of the others
EarlyCount == EntryCount \div 2

LateCount == EntryCount - EarlyCount

EarlySum == SumRatings(SubSeq(Chronological, 1, EarlyCount), tEntries)

LateSum == SumRatings(SubSeq(Chronological, EarlyCount + 1, EntryCount), tEntries)

\* the sign of (difference - 3/10) and of (difference + 3/10), for the difference
\* LateSum / LateCount - EarlySum / EarlyCount, in integers
AboveThreshold ==
    10 * (LateSum * EarlyCount - EarlySum * LateCount) > 3 * EarlyCount * LateCount

BelowThreshold ==
    10 * (LateSum * EarlyCount - EarlySum * LateCount) < 0 - 3 * EarlyCount * LateCount

\* C9: for 7 or more entries the trend is 'improving' iff the difference of the
\* half means is above 0.3, 'declining' iff it is below -0.3, 'stable' otherwise.
C9_ThresholdClassification ==
    (Classified /\ EntryCount >= 7) =>
        tResult.value = IF AboveThreshold THEN "improving"
                        ELSE IF BelowThreshold THEN "declining"
                        ELSE "stable"

\* C10: for 7 or more entries the first slice is the floor(n/2) earliest dates in
\* chronological order and the second slice is the other dates in chronological
\* order: every entry is in exactly one slice, the odd one out in the second.
C10_ChronologicalHalves ==
    (Classified /\ EntryCount >= 7) =>
        /\ tResult.firstHalf = SubSeq(Chronological, 1, EntryCount \div 2)
        /\ tResult.secondHalf = SubSeq(Chronological, EntryCount \div 2 + 1, EntryCount)
        /\ tResult.firstHalf \o tResult.secondHalf = Chronological

\* C10 witness: nine entries from September into October, split four and five
C10_Witness ==
    /\ Classified
    /\ EntryCount = 9
    /\ Len(tResult.firstHalf) = 4
    /\ Len(tResult.secondHalf) = 5
    /\ tResult.firstHalf[1] = Str("2024-09-27")
    /\ tResult.secondHalf[5] = Str("2024-10-05")

-----------------------------------------------------------------------------
(* Properties of the generator stage *)

Generated == gOut # NoOutput

\* the theme list of the input has the label
HasTheme(label) == \E i \in DOMAIN gInput.themes : gInput.themes[i] = label

\* the exact mean of the input is below 3: total / days < 3
MeanBelowThree == gInput.total < 3 * gInput.days

\* which of the six conditional rules fire on the input, in their order
RuleFires ==
    << MeanBelowThree, gInput.trend = "declining", HasTheme(ThemeLabels[5]),
       HasTheme(ThemeLabels[1]), HasTheme(ThemeLabels[2]), HasTheme(ThemeLabels[3]) >>

\* what each rule recommends
RuleItems ==
    << <<"Consider talking to someone you trust about how you're feeling.",
         "Try incorporating small self-care activities into your daily routine.">>,
       <<"Identify patterns: What days tend to be harder? What helps on better days?",
         "Consider professional support if you're consistently struggling.">>,
       <<"Practice stress management techniques like deep breathing or meditation.",
         "Ensure you're getting enough rest and taking regular breaks.">>,
       <<"Maintain work-life balance. Set boundaries for work hours.">>,
       <<"Continue nurturing your social connections - they're important for wellbeing.">>,
       <<"Keep up the healthy habits! Physical health supports mental wellbeing.">> >>

\* the three generic recommendations
DefaultItems ==
    <<"Continue reflecting daily to track your emotional patterns.",
      "Celebrate your wins, no matter how small.",
      "Be kind to yourself on difficult days.">>

\* the items of the rules that fire, concatenated in the order of the rules
FiredItems ==
    LET fires == RuleFires
        RECURSIVE From(_)
        From(k) == IF k > Len(RuleItems) THEN <<>>
                   ELSE (IF fires[k] THEN RuleItems[k] ELSE <<>>) \o From(k + 1)
    IN  From(1)

\* the first four elements of a list, or all of them if there are fewer
FirstFour(list) == SubSeq(list, 1, IF Len(list) < 4 THEN Len(list) ELSE 4)

\* C11: for every combination of average, trend and themes, and on the
\* empty-window path, the report has at most 4 recommendations.
C11_AtMostFourRecommendations == Generated => Len(gOut.recommendations) <= 4

\* three rules of two items each fire, and four recommendations are returned
C11_Witness ==
    /\ Generated
    /\ MeanBelowThree /\ gInput.trend = "declining" /\ HasTheme(ThemeLabels[5])
    /\ Len(gOut.recommendations) = 4

\* C12 as stated: generateRecommendations returns the first 4 elements (or all,
\* if fewer) of the concatenation, in the fixed order, of the outputs of those
\* of the six rules that fire.
C12_PrefixOfFiredRules ==
    (Generated /\ gInput.days > 0) => gOut.recommendations = FirstFour(FiredItems)

\* C12, amended: when at least one of the six rules fires, generateRecommendations
\* returns the first 4 elements (or all, if fewer) of the concatenation of the
\* outputs of the rules that fire, in the fixed order, so that no item of an
\* earlier rule is dropped in favour of an item of a later rule.
C12_PrefixWhenSomeRuleFires ==
    (Generated /\ gInput.days > 0 /\ \E k \in DOMAIN RuleFires : RuleFires[k]) =>
        gOut.recommendations = FirstFour(FiredItems)

\* the list is truncated: the Stress rule keeps its two items, and the
\* items of the Work and Health rules, which fire too, are dropped
C12_Witness ==
    /\ Generated
    /\ gInput.days > 0
    /\ RuleFires = <<FALSE, TRUE, TRUE, TRUE, FALSE, TRUE>>
    /\ gOut.recommendations = RuleItems[2] \o RuleItems[3]

\* the window of the example: 14 entries, all rated 3, no description
FourteenNeutral == [date \in {DateStr(Today - i) : i \in 0..13} |-> DayEntry(3, <<>>)]

\* C13: generateRecommendations returns exactly the three default recommendations
\* if and only if none of the six rules fires; for 14 entries all rated 3 with
\* empty descriptions topThemes is empty and the recommendations are the defaults.
C13_DefaultsIffNoRuleFires ==
    (Generated /\ gInput.days > 0) =>
        /\ gOut.recommendations = DefaultItems <=> \A k \in DOMAIN RuleFires : ~RuleFires[k]
        /\ (gInput.days = 14 /\ gInput.total = 14 * 3 /\ gInput.themes = <<>>) =>
              /\ extractThemes(FourteenNeutral) = <<>>
              /\ TotalRating(FourteenNeutral) = gInput.total
              /\ gInput.trend = analyzeRatingTrend(FourteenNeutral) =>
                    gOut.recommendations = DefaultItems

\* the example: 14 days, mean 3, stable, no theme, and the three defaults
C13_Witness ==
    /\ Generated
    /\ gInput = [days |-> 14, total |-> 42, trend |-> "stable", themes |-> <<>>]
    /\ analyzeRatingTrend(FourteenNeutral) = "stable"
    /\ gOut.recommendations = DefaultItems

\* the consistency message of the tier the number of rated days is in
ConsistencyMessage ==
    IF gInput.days >= 25
    THEN "Excellent consistency! You've been tracking your mood regularly."
    ELSE IF gInput.days >= 15
    THEN "Good tracking habit! Try to maintain this consistency."
    ELSE "Consider tracking more regularly to get better insights."

\* the mood message of the tier the exact mean total / days is in
MoodMessage ==
    IF gInput.total >= 4 * gInput.days
    THEN "Your overall mood has been very positive this month!"
    ELSE IF gInput.total >= 3 * gInput.days
    THEN "Your mood has been generally stable and balanced."
    ELSE "It seems you've had some challenging days."

\* the trend message, for a trend that has one
TrendMessage ==
    IF gInput.trend = "improving"
    THEN "Great news! Your mood trend is improving over time."
    ELSE "Your mood has been declining recently."

\* C14: for a non-empty window the insights are, in this order: exactly one
\* consistency message, exactly one mood message, a trend message iff the trend
\* is improving or declining, and a theme summary (of all the themes) iff
\* topThemes is non-empty; so there are between 2 and 4 insights.
C14_InsightsInOrder ==
    (Generated /\ gInput.days > 0) =>
        LET insights   == gOut.insights
            withTrend  == gInput.trend \in {"improving", "declining"}
            withThemes == gInput.themes # <<>>
            expected   ==
                <<Insight(ConsistencyMessage), Insight(MoodMessage)>>
                \o (IF withTrend THEN <<Insight(TrendMessage)>> ELSE <<>>)
                \o (IF withThemes
                    THEN <<[text |-> "Main focus areas: ${themes.join(', ')}.",
                            themes |-> gInput.themes]>>
                    ELSE <<>>)
        IN  /\ insights = expected
            /\ Len(insights) >= 2 /\ Len(insights) <= 4

\* 15 rated days with mean exactly 4.0, an improving trend and themes: four insights
C14_Witness ==
    /\ Generated
    /\ gInput.days = 15 /\ gInput.total = 60
    /\ gInput.trend = "improving" /\ Len(gInput.themes) = 3
    /\ Len(gOut.insights) = 4
    /\ gOut.insights[2].text = "Your overall mood has been very positive this month!"

-----------------------------------------------------------------------------
(* Properties of the theme extractor *)

Extracted == Len(xRuns) >= 1

\* the position of a label in the keyword table
ThemeIndex(label) == CHOOSE t \in DOMAIN ThemeLabels : ThemeLabels[t] = label

\* the keyword count of the theme at each position of a returned list
CountsOf(themes) == [i \in DOMAIN themes |-> ThemeScores(xEntries)[ThemeIndex(themes[i])]]

\* C15: topThemes has at most 3 labels, only themes whose keyword count is
\* greater than zero, in the order of non-increasing count, and no theme left
\* out has a strictly higher count than a theme included.
C15_TopThemes ==
    Extracted =>
        LET themes   == xRuns[1]
            scores   == ThemeScores(xEntries)
            counts   == [i \in DOMAIN themes |-> scores[ThemeIndex(themes[i])]]
            included == {ThemeIndex(themes[i]) : i \in DOMAIN themes}
        IN  /\ Len(themes) <= 3
            /\ \A i \in DOMAIN themes : themes[i] \in {ThemeLabels[t] : t \in DOMAIN ThemeLabels}
            /\ \A i, j \in DOMAIN themes : i # j => themes[i] # themes[j]
            /\ \A i \in DOMAIN themes : counts[i] > 0
            /\ \A i, j \in DOMAIN themes : i < j => counts[i] >= counts[j]
            /\ \A t \in DOMAIN scores \ included : \A u \in included : scores[t] <= scores[u]

\* five themes have keywords in the window and three are returned
C15_Witness ==
    /\ Extracted
    /\ Len(xRuns[1]) = 3
    /\ Cardinality({t \in DOMAIN ThemeLabels : ThemeScores(xEntries)[t] > 0}) >= 5
    /\ CountsOf(xRuns[1])[1] > CountsOf(xRuns[1])[3]

\* C16: two runs of extractThemes on the same input return the same ordered
\* list, and among themes with equal counts the order, and the choice of the
\* themes that make the top 3, follow the declaration order work, social,
\* health, learning, stress, achievement.
C16_DeterministicTieBreak ==
    /\ \A i, j \in DOMAIN xRuns : xRuns[i] = xRuns[j]
    /\ Extracted =>
        LET themes   == xRuns[1]
            scores   == ThemeScores(xEntries)
            included == {ThemeIndex(themes[i]) : i \in DOMAIN themes}
        IN  /\ \A i, j \in DOMAIN themes :
                  (i < j /\ scores[ThemeIndex(themes[i])] = scores[ThemeIndex(themes[j])]) =>
                      ThemeIndex(themes[i]) < ThemeIndex(themes[j])
            /\ \A t \in DOMAIN scores \ included : \A u \in included :
                  scores[t] = scores[u] => u < t

\* both runs are done on a window in which four themes have the count of the
\* last theme returned: the first three of the table are returned, in its order
C16_Witness ==
    /\ Len(xRuns) >= 2
    /\ Len(xRuns[2]) = 3
    /\ Cardinality({t \in DOMAIN ThemeLabels :
                       ThemeScores(xEntries)[t] = CountsOf(xRuns[2])[3]}) >= 4
    /\ CountsOf(xRuns[2])[2] = CountsOf(xRuns[2])[3]

-----------------------------------------------------------------------------
(* Properties of the entry store *)

\* what getDayEntry(date) returns in the current state, for a read that completes
EntryRead(date) == getDayEntry(storage, date)

\* getDayEntry returns the entry of the latest completed save of each date, and
\* null for a date never saved
ReadsLatestSave ==
    \A date \in StoreDates :
        EntryRead(date) = IF date \in DOMAIN saved THEN saved[date] ELSE NoEntry

\* one step changes the entry of at most one date, and takes no entry away
UpsertStep ==
    /\ Cardinality({date \in StoreDates :
                       getDayEntry(storage', date) # getDayEntry(storage, date)}) <= 1
    /\ \A date \in StoreDates :
          getDayEntry(storage, date) # NoEntry => getDayEntry(storage', date) # NoEntry

-----------------------------------------------------------------------------
(* Properties of the reminder *)

\* C18: the 21:00 reminder notifies only on days that have not been rated:
\* whenever the scheduled reminder fires at 21:00 on a day, the store holds no
\* entry for that day, whether Save or auto-save would have written it.
C18_ReminderOnlyOnUnratedDays == \A n \in notified : ~n.rated

\* a handleSaveEntry call saved an entry for the date that was today when the
\* save completed, its setupSmartNotifications call has completed, and it is
\* still that day
SavedTodayAndSetUp ==
    /\ handler.pc = "alert"
    /\ handler.date = NotifyDay[handler.day]
    /\ wallClock.day = handler.day

\* C19: after handleSaveEntry has saved an entry for today's date and its
\* setupSmartNotifications call has completed, no reminder remains scheduled.
C19_NoReminderAfterSave == SavedTodayAndSetUp => scheduled = 0

-----------------------------------------------------------------------------
(* Properties of the authentication gate *)

\* the app returns to the foreground: AppState changes to 'active'
ReturnsToForeground == appState # "active" /\ appState' = "active"

\* C20: when authentication is enabled, every return of the app to the
\* foreground after a successful authentication revokes it: the auth screen is
\* shown again, and the content stays hidden until onAuthenticated is called
\* again (isAuthenticated becomes true only when a passcode or biometric check
\* resolves).
C20_ForegroundRevokes ==
    [][ /\ (ReturnsToForeground /\ isAuthEnabled(storage)
                /\ gate.authRequired /\ gate.isAuthenticated) =>
            (~gate'.isAuthenticated /\ ~ContentShown')
        /\ (AuthScreenShown /\ ContentShown') => (attempt # NoAttempt /\ attempt' = NoAttempt)
      ]_vars

\* the auto-submit timer of the auth screen fires
AutoSubmitFires == screen.timers # <<>> /\ screen'.timers = Tail(screen.timers)

\* the stored passcode stands in the passcode field, typed one digit at a time
\* into the empty field, and the timer its fourth digit set is pending
TypedStoredPasscode ==
    /\ AuthScreenShown
    /\ history.keyed = 4
    /\ verifyPasscode(storage, screen.passcode)
    /\ Len(screen.timers) = 1

\* C21: once the stored 4-digit passcode has been typed digit by digit into
\* the empty passcode field, the auto-submit calls verifyPasscode with those
\* four digits, and the check that then resolves calls onAuthenticated (no
\* biometric success is involved).
C21_TypedPasscodeAuthenticates ==
    [][ /\ (TypedStoredPasscode /\ AutoSubmitFires) =>
            attempt' = [kind |-> "passcode", passcode |-> screen.passcode]
        /\ (attempt.kind = "passcode" /\ verifyPasscode(storage, attempt.passcode)
                /\ attempt' = NoAttempt) => history'.authenticated
      ]_vars

\* C29: the content is rendered only if the auth check has finished and
\* either authentication is not required or onAuthenticated has been called
\* since the last launch or return to the foreground; and while the persisted
\* auth flag is enabled the content is not shown before a biometric or passcode
\* check has succeeded.
C29_ContentOnlyAfterAuthentication ==
    /\ ContentShown =>
        (~gate.isCheckingAuth /\ (~gate.authRequired \/ history.authenticated))
    /\ (ContentShown /\ isAuthEnabled(storage)) => history.checked

-----------------------------------------------------------------------------
(* Properties of the diary modal *)

\* the auto-save timer elapses: only autoSaveDiary takes the pending timer away
TimerElapses == ratingModal.saveTimeout.pending /\ ~ratingModal'.saveTimeout.pending

\* C22: while the modal is open with a rating selected, the timer that elapses
\* 2 seconds after the last description change saves the text of that change
\* with the rating selected now, for the date the modal shows.
C22_DebouncedAutoSave ==
    [][ (TimerElapses /\ calendarScreen.modalVisible /\ ratingModal.rating # 0) =>
            ratingModal'.autoSaves =
                Append(ratingModal.autoSaves,
                       [date |-> calendarScreen.selectedDate,
                        entry |-> DayEntry(ratingModal.rating,
                                           ratingModal.saveTimeout.text)])
      ]_vars

\* the entries of the saveDayEntry calls of the modal that are in flight
EntriesInFlight ==
    {calendarScreen.saveEntries[i].entry : i \in DOMAIN calendarScreen.saveEntries}
        \cup {ratingModal.autoSaves[i].entry : i \in DOMAIN ratingModal.autoSaves}

\* the entries the store holds for the dates of the modal
EntriesStored == {getDayEntry(storage, date) : date \in ModalDates} \ {NoEntry}

\* C23: the description the modal holds never exceeds 1512 characters, a
\* change that would exceed the limit leaves the text and the timer as they
\* were, and every description the modal writes, by Save or by auto-save, has
\* at most 1512 characters.
C23_DescriptionWithinLimit ==
    /\ [](/\ Len(ratingModal.description) <= 1512
          /\ \A entry \in EntriesInFlight \cup EntriesStored :
                Len(entry.description) <= 1512)
    /\ [][ (ratingModal.alert = "none"
                /\ ratingModal'.alert = "Character Limit Reached") =>
            (/\ ratingModal'.description = ratingModal.description
             /\ ratingModal'.saveTimeout = ratingModal.saveTimeout)
         ]_vars

\* a text beyond the limit was refused while a text of 1512 characters stands
\* in the modal, and an entry of 1512 characters has been written
C23_Witness ==
    /\ ratingModal.alert = "Character Limit Reached"
    /\ Len(ratingModal.description) = 1512
    /\ \E entry \in EntriesStored : Len(entry.description) = 1512

\* C25: every entry the modal writes has a rating in 1..5: handleSave without
\* a rating starts no save, the timer without a rating starts none, so from the
\* empty store on every stored entry has a rating in 1..5.
C25_StoredRatingsInRange ==
    \A entry \in EntriesInFlight \cup EntriesStored : entry.rating \in 1..5

\* Save was pressed without a rating (the alert is up) and nothing was sent,
\* while the store holds an entry written before
C25_Witness ==
    /\ ratingModal.alert = "Rating Required"
    /\ ratingModal.rating = 0
    /\ EntriesInFlight = {}
    /\ EntriesStored # {}

\* C26: after a Save of (r, t) for date d has completed, the store's entry of
\* d is (r, t) until the user edits that date again.
C26_SaveIsNotOverwritten ==
    history.lastSave # NoSave =>
        getDayEntry(storage, history.lastSave.date) = history.lastSave.entry

\* C30: whenever the modal becomes visible, or its date or its entry is set
\* while it is visible, selectedEntry is the store's entry of selectedDate
\* (null if there is none).
C30_ModalShowsStoredEntry ==
    [][ (/\ calendarScreen'.modalVisible
         /\ \/ ~calendarScreen.modalVisible
            \/ calendarScreen'.selectedEntry # calendarScreen.selectedEntry
            \/ calendarScreen'.selectedDate # calendarScreen.selectedDate) =>
            calendarScreen'.selectedEntry =
                getDayEntry(storage', calendarScreen'.selectedDate)
      ]_vars

-----------------------------------------------------------------------------
(* Properties of the scheduling *)

\* C27: at most one reminder notification is scheduled at any time, however
\* the setupSmartNotifications call of the launch and the calls made after a
\* Save interleave.
C27_AtMostOneReminder == scheduled <= 1

-----------------------------------------------------------------------------
(* Properties of the report's texts against the average it shows *)

\* report.averageRating of the generator's input: Math.round(averageRating * 10) / 10
DisplayedAverage == RoundedAverage(Double(gInput.total, gInput.days))

\* C28: the texts of a report agree with the averageRating it displays: the
\* mood insight is the 'very positive' message iff report.averageRating >= 4.0
\* and the 'challenging days' message iff report.averageRating < 3.0, and the
\* two low-average recommendations are produced iff report.averageRating < 3.0.
C28_TextAgreesWithDisplayedAverage ==
    (Generated /\ gInput.days > 0) =>
        LET shown == DisplayedAverage
            mood  == gOut.insights[2].text
            low   == /\ Len(gOut.recommendations) >= 2
                     /\ SubSeq(gOut.recommendations, 1, 2) = RuleItems[1]
        IN  /\ mood = "Your overall mood has been very positive this month!"
                <=> FCmp(shown, Four) >= 0
            /\ mood = "It seems you've had some challenging days."
                <=> FCmp(shown, Three) < 0
            /\ low <=> FCmp(shown, Three) < 0

-----------------------------------------------------------------------------
(* Properties of the word counter *)

Counted == wOut # NoCount

\* the number of maximal runs of non-whitespace characters of a text: the
\* positions where such a run starts
NonWhitespaceRuns(text) ==
    Cardinality({i \in DOMAIN text :
                    /\ ~IsWhiteSpace(text[i])
                    /\ (i = 1 \/ IsWhiteSpace(text[i - 1]))})

\* the non-empty runs of spaces, tabs and newlines of up to two characters
SeparatorRuns == UNION {[1..n -> {32, 9, 10}] : n \in 1..2}

\* the separators of a text: its maximal runs of whitespace between two words
SeparatorsOf(text) ==
    {run \in (DOMAIN text) \X (DOMAIN text) :
        /\ run[1] > 1 /\ run[2] < Len(text) /\ run[1] <= run[2]
        /\ \A i \in run[1]..run[2] : IsWhiteSpace(text[i])
        /\ ~IsWhiteSpace(text[run[1] - 1])
        /\ ~IsWhiteSpace(text[run[2] + 1])}

\* C24: calculateWordCount returns the number of maximal runs of
\* non-whitespace characters of the text: 0 for an empty or whitespace-only
\* text, and the count is unchanged by leading or trailing whitespace and by
\* replacing a separator with any non-empty run of spaces, tabs or newlines.
C24_WordCountIsRunCount ==
    Counted =>
        /\ wOut = NonWhitespaceRuns(wInput)
        /\ (\A i \in DOMAIN wInput : IsWhiteSpace(wInput[i])) => wOut = 0
        /\ \A pad \in SeparatorRuns :
            /\ calculateWordCount(pad \o wInput) = wOut
            /\ calculateWordCount(wInput \o pad) = wOut
        /\ \A run \in SeparatorsOf(wInput), pad \in SeparatorRuns :
            calculateWordCount(SubSeq(wInput, 1, run[1] - 1) \o pad
                               \o SubSeq(wInput, run[2] + 1, Len(wInput))) = wOut

\* a text with a leading space and a separator of a tab and a newline: two words
C24_Witness ==
    /\ Counted
    /\ wInput = <<32, 97, 9, 10, 97>>
    /\ wOut = 2

====
